---------------------------- MODULE Spec2Model ----------------------------
(***************************************************************************)
(* Model of the crypto derivatives dashboard server (src/server.js, the    *)
(* last revision in the file, lines 1114-1683): the in-memory cache, the   *)
(* refresh cycle (refreshAllData), the upstream request helpers with their *)
(* retry loops, the startup sequence with its interval timer, and the      *)
(* cache-backed route handlers.                                            *)
(*                                                                         *)
(* JavaScript runs callbacks to completion, so one action is the code that *)
(* runs between two awaits: a handler, a timer callback, or the            *)
(* continuation of refreshAllData after an awaited promise settles.        *)
(***************************************************************************)
EXTENDS Integers, Sequences, FiniteSets, TLC

VARIABLES
    cache,      \* the cache object (server.js 1138-1150)
    cyc,        \* locals of the refreshAllData invocation in progress
    active,     \* number of refreshAllData invocations past the guard
    started,    \* number of refresh cycles started so far
    faults,     \* number of upstream calls that ended without a body so far
    boot,       \* position of the app.listen callback
    timer,      \* TRUE once setInterval has installed the refresh timer
    writer,     \* for each cache.data field, the cycle that last assigned it
    last,       \* the last event: a response sent, a timer call, a cycle's end
    rq          \* one upstream request followed attempt by attempt

vars == <<cache, cyc, active, started, faults, boot, timer, writer, last, rq>>

(***************************************************************************)
(* Bounds of the model.                                                    *)
(***************************************************************************)
\* refresh cycles that may start in one run
MaxCycles == 2
\* upstream calls of one run that may end without a body (throw / undefined)
MaxFaults == 1
\* markets in a listing of the /future-markets endpoint
MaxListing == 3
\* items (or history points) in a cache.data field served by the routes
MaxItems == 3

(***************************************************************************)
(* JavaScript values.                                                      *)
(* Every value is a record, so that any two of them can be compared: null, *)
(* undefined, a number, an array with its items, an object with its        *)
(* properties.                                                             *)
(***************************************************************************)
NULL == [t |-> "null"]

UNDEFINED == [t |-> "undefined"]

Num(x) == [num |-> x]

Array(items) == [items |-> items]

\* what the caller of a function that threw gets instead of a value
THROWN == [t |-> "thrown"]

\* !x for the values a cache field can hold (arrays are truthy, even empty)
Falsy(x) == x = NULL \/ x = UNDEFINED

(***************************************************************************)
(* Upstream outcomes of one fetch: a response with a status and a          *)
(* Retry-After header (a sequence of decimal digits, <<>> when the header  *)
(* is absent), or a transport error (fetch rejects).                       *)
(***************************************************************************)
Response(status, retryAfter) ==
    [type |-> "response", status |-> status, retryAfter |-> retryAfter]

TransportError == [type |-> "error", status |-> 0, retryAfter |-> <<>>]

Outcomes ==
    { Response(200, <<>>), Response(500, <<>>), Response(429, <<>>),
      Response(429, <<1, 2>>), TransportError }

\* response.ok
Ok(o) == o.type = "response" /\ o.status >= 200 /\ o.status <= 299

RECURSIVE ParseDigits(_, _)
ParseDigits(ds, acc) ==
    IF ds = <<>> THEN acc ELSE ParseDigits(Tail(ds), acc * 10 + Head(ds))

\* parseInt(response.headers.get('Retry-After') || '5')
RetryAfterSeconds(o) ==
    IF o.retryAfter = <<>> THEN ParseDigits(<<5>>, 0) ELSE ParseDigits(o.retryAfter, 0)

\* default value of the retries parameter
Retries == 3

\* a backoff that does not grow with the attempt
BackoffFlat(attempt) == 2000

\* sleep(2000 * attempt) after a failed attempt

Backoff(attempt) == 2000 * attempt

(***************************************************************************)
(* The retry loops.  A request is followed as a record: the loop counter   *)
(* attempt, the outcomes consumed so far (one per fetch), the sleeps made  *)
(* (ms), and how it completed: st is "pending" while the loop runs,        *)
(* "returned" with the value returned, or "thrown".                        *)
(***************************************************************************)
NewRequest(api, body) ==
    [api |-> api, body |-> body, attempt |-> 1, seen |-> <<>>, sleeps |-> <<>>,
     st |-> "pending", value |-> UNDEFINED]

\* the catch block of both loops: rethrow on the last attempt, else back off
Catch(r, o) ==
    IF r.attempt = Retries
    THEN [r EXCEPT !.seen = Append(@, o), !.st = "thrown"]
    ELSE [r EXCEPT !.seen = Append(@, o),
                   !.sleeps = Append(@, Backoff(r.attempt)),
                   !.attempt = @ + 1]

\* a 429 branch that retries without counting the attempt
RateLimitedKeepsAttempt(r, o) ==
    [r EXCEPT !.seen = Append(@, o),
              !.sleeps = Append(@, RetryAfterSeconds(o) * 1000)]

\* the 429 branch of coinalyzeRequest: sleep, then `continue`, which runs the
\* for statement's attempt++ and its test; when the test fails the function
\* ends without a return statement
RateLimited(r, o) ==
    [r EXCEPT !.seen = Append(@, o),
              !.sleeps = Append(@, RetryAfterSeconds(o) * 1000),
              !.attempt = @ + 1,
              !.st = IF r.attempt + 1 <= Retries THEN "pending" ELSE "returned",
              !.value = UNDEFINED]

Returned(r, o) ==
    [r EXCEPT !.seen = Append(@, o), !.st = "returned", !.value = r.body]

\* one iteration of the loop of coinalyzeRequest on upstream outcome o
coinalyzeIteration(r, o) ==
    IF o.type = "error" THEN Catch(r, o)
    ELSE IF o.status = 429 THEN RateLimited(r, o)
    ELSE IF ~Ok(o) THEN Catch(r, o)
    ELSE Returned(r, o)

\* one iteration of the loop of hyperliquidRequest on upstream outcome o
hyperliquidIteration(r, o) ==
    IF o.type = "error" THEN Catch(r, o)
    ELSE IF ~Ok(o) THEN Catch(r, o)
    ELSE Returned(r, o)

Iteration(r, o) ==
    IF r.api = "coinalyze" THEN coinalyzeIteration(r, o) ELSE hyperliquidIteration(r, o)

\* the whole call on a sequence of upstream outcomes, one per fetch
RECURSIVE RunRequest(_, _)
RunRequest(r, outs) ==
    IF r.st # "pending" \/ outs = <<>> THEN r
    ELSE RunRequest(Iteration(r, Head(outs)), Tail(outs))

coinalyzeRequest(body, outs) == RunRequest(NewRequest("coinalyze", body), outs)

hyperliquidRequest(body, outs) == RunRequest(NewRequest("hyperliquid", body), outs)

OutcomeSeqs == [1..Retries -> Outcomes]


(***************************************************************************)
(* Symbols.  A Coinalyze symbol string such as 'BTCUSDT_PERP.A' is the     *)
(* record of its parts: base 'BTC', quote 'USDT', suffix '_PERP', and the  *)
(* exchange code after the dot.                                            *)
(***************************************************************************)
Sym(base, quote, suffix, code) ==
    [base |-> base, quote |-> quote, suffix |-> suffix, code |-> code]

\* symbol.split('.')[1]
CodeOf(symbol) == symbol.code

\* keys of COINALYZE_EXCHANGES, in Object.keys order (integer-like keys first,
\* ascending, then the others in insertion order)
COINALYZE_EXCHANGES == <<"3", "4", "6", "A">>

wantedCodes == { COINALYZE_EXCHANGES[i] : i \in DOMAIN COINALYZE_EXCHANGES }

\* the numeric value of a property key that is an integer index, else -1
IntegerKey(code) ==
    CASE code = "0" -> 0 [] code = "3" -> 3 [] code = "4" -> 4 [] code = "6" -> 6
      [] OTHER -> -1

\* a loop that never prefers a candidate over the one it holds
isPreferredNever(symbol) == FALSE

\* m.symbol.includes('USDT_PERP') || m.symbol.includes('USDT.')
isPreferred(symbol) ==
    \/ symbol.quote = "USDT" /\ symbol.suffix = "_PERP"
    \/ symbol.quote = "USDT" /\ symbol.suffix = ""

\* a list in place of the object: every assignment adds an entry
SetKeyAppend(entries, code, symbol) ==
    Append(entries, [code |-> code, symbol |-> symbol])

\* byExchange[code] = symbol on an object kept as its entries in insertion order
SetKey(entries, code, symbol) ==
    IF \E i \in DOMAIN entries : entries[i].code = code
    THEN [i \in DOMAIN entries |->
            IF entries[i].code = code THEN [code |-> code, symbol |-> symbol]
            ELSE entries[i]]
    ELSE Append(entries, [code |-> code, symbol |-> symbol])

HasKey(entries, code) == \E i \in DOMAIN entries : entries[i].code = code

RECURSIVE PickLoop(_, _)
PickLoop(markets, byExchange) ==
    IF markets = <<>> THEN byExchange
    ELSE LET m == Head(markets)
             code == CodeOf(m.symbol)
         IN  PickLoop(Tail(markets),
                      IF ~HasKey(byExchange, code) \/ isPreferred(m.symbol)
                      THEN SetKey(byExchange, code, m.symbol)
                      ELSE byExchange)

\* the entries whose key is an integer index, in ascending key order
RECURSIVE IntegerKeyed(_, _)
IntegerKeyed(entries, above) ==
    LET rest == { i \in DOMAIN entries : IntegerKey(entries[i].code) > above }
    IN  IF rest = {} THEN <<>>
        ELSE LET i == CHOOSE i \in rest :
                        \A j \in rest : IntegerKey(entries[i].code) <= IntegerKey(entries[j].code)
             IN  <<entries[i].symbol>> \o IntegerKeyed(entries, IntegerKey(entries[i].code))

SymbolOfEntry(e) == e.symbol

RECURSIVE MapSymbols(_)
MapSymbols(entries) ==
    IF entries = <<>> THEN <<>>
    ELSE <<SymbolOfEntry(Head(entries))>> \o MapSymbols(Tail(entries))

IsStringKeyed(e) == IntegerKey(e.code) = -1

\* Object.values(byExchange)
ObjectValues(entries) ==
    IntegerKeyed(entries, -1) \o MapSymbols(SelectSeq(entries, IsStringKeyed))

pickOnePerExchange(markets) == ObjectValues(PickLoop(markets, <<>>))

Market(symbol, is_perpetual) ==
    [symbol |-> symbol, base_asset |-> symbol.base, is_perpetual |-> is_perpetual]

\* the BTC filter without its is_perpetual test
IsBtcMarketAnyContract(m) ==
    m.base_asset = "BTC" /\ CodeOf(m.symbol) \in wantedCodes

IsBtcMarket(m) ==
    m.base_asset = "BTC" /\ m.is_perpetual /\ CodeOf(m.symbol) \in wantedCodes

IsEthMarket(m) ==
    m.base_asset = "ETH" /\ m.is_perpetual /\ CodeOf(m.symbol) \in wantedCodes

FallbackBtcSymbols ==
    << Sym("BTC", "USDT", "_PERP", "A"), Sym("BTC", "USDT", "", "6"),
       Sym("BTC", "USDT", "_PERP", "3") >>

FallbackEthSymbols ==
    << Sym("ETH", "USDT", "_PERP", "A"), Sym("ETH", "USDT", "", "6"),
       Sym("ETH", "USDT", "_PERP", "3") >>

\* initializeSymbols, given how its coinalyzeRequest('/future-markets') completed:
\* a throw, or markets.filter on undefined, goes to the catch block
initializeSymbols(r) ==
    IF r.st = "thrown" \/ r.value = UNDEFINED
    THEN [btcSymbols |-> FallbackBtcSymbols, ethSymbols |-> FallbackEthSymbols,
          result |-> FALSE]
    ELSE [btcSymbols |-> pickOnePerExchange(SelectSeq(r.value.items, IsBtcMarket)),
          ethSymbols |-> pickOnePerExchange(SelectSeq(r.value.items, IsEthMarket)),
          result |-> TRUE]

\* market listings the /future-markets endpoint answers with
ListingAll ==
    << Market(Sym("BTC", "USD", "_PERP", "A"), TRUE),
       Market(Sym("BTC", "USDT", "_PERP", "A"), TRUE),
       Market(Sym("ETH", "USDT", "_PERP", "A"), TRUE),
       Market(Sym("BTC", "USDT", "", "6"), TRUE),
       Market(Sym("ETH", "USDT", "", "6"), TRUE),
       Market(Sym("BTC", "USDT", "_PERP", "0"), TRUE),
       Market(Sym("ETH", "USD", "_PERP", "3"), FALSE) >>

ListingNoBinance ==
    << Market(Sym("BTC", "USD", "", "6"), TRUE),
       Market(Sym("BTC", "USDT", "", "6"), TRUE),
       Market(Sym("ETH", "USDT", "_PERP", "3"), TRUE) >>

Listings == { ListingAll, ListingNoBinance }


(***************************************************************************)
(* Upstream bodies.  Numbers are counted in millionths: 1.0 is Unit.  The  *)
(* data the upstreams hold changes from one refresh cycle to the next, so  *)
(* the bodies of cycle n carry n in their values.                          *)
(***************************************************************************)
Unit == 1000 * 1000

Abs(x) == IF x < 0 THEN -x ELSE x

\* body of /open-interest for the symbols asked, in cycle n
OpenInterestBody(symbols, n) ==
    Array([i \in DOMAIN symbols |->
             [symbol |-> symbols[i], value |-> Num((100 + n) * Unit)]])

\* body of /funding-rate
FundingRateBody(symbols, n) ==
    Array([i \in DOMAIN symbols |-> [symbol |-> symbols[i], value |-> Num(n * 1000)]])

\* body of /open-interest-history and /funding-rate-history
HistoryBody(symbols, n) ==
    Array([i \in DOMAIN symbols |->
             [symbol |-> symbols[i], history |-> <<[t |-> n, c |-> Num(n * 1000)]>>]])

\* body of /long-short-ratio-history for one symbol
LongShortBody(symbol, n) ==
    Array(<< [symbol |-> symbol,
               history |-> <<[t |-> n, r |-> Num(Unit), l |-> Num(50 * Unit),
                              s |-> Num(50 * Unit)]>>] >>)

\* body of Hyperliquid's metaAndAssetCtxs: numeric strings are the numbers they
\* denote (parseFloat), funding in millionths, open interest and price in units
HyperliquidMeta(names, n) ==
    [universe |-> names,
     assetCtxs |-> [i \in DOMAIN names |-> [funding |-> n, openInterest |-> n, markPx |-> 2]]]

HyperliquidBodies(n) ==
    { HyperliquidMeta(<<"BTC", "ETH">>, n), HyperliquidMeta(<<"SOL", "ETH">>, n) }

\* universe.findIndex(a => a.name === name), 0 for JavaScript's -1
FindIndex(universe, name) ==
    IF \E i \in DOMAIN universe : universe[i] = name
    THEN CHOOSE i \in DOMAIN universe :
            universe[i] = name /\ \A j \in DOMAIN universe : universe[j] = name => i <= j
    ELSE 0

HyperliquidEntry(metaData, name) ==
    LET index == FindIndex(metaData.universe, name)
    IN  IF index # 0 /\ index \in DOMAIN metaData.assetCtxs
        THEN LET ctx == metaData.assetCtxs[index]
             IN  [openInterest |-> ctx.openInterest * ctx.markPx * Unit,
                  fundingRate |-> ctx.funding * 8 * 100,
                  markPrice |-> ctx.markPx * Unit]
        ELSE NULL

HyperliquidNone == [btc |-> NULL, eth |-> NULL]

\* fetchHyperliquidData without its try/catch
fetchHyperliquidDataRethrow(r) ==
    IF r.st = "thrown" THEN THROWN
    ELSE [btc |-> HyperliquidEntry(r.value, "BTC"), eth |-> HyperliquidEntry(r.value, "ETH")]

\* fetchHyperliquidData, given how its hyperliquidRequest completed
fetchHyperliquidData(r) ==
    IF r.st = "thrown" THEN HyperliquidNone
    ELSE [btc |-> HyperliquidEntry(r.value, "BTC"), eth |-> HyperliquidEntry(r.value, "ETH")]

(***************************************************************************)
(* The cache and the locals of refreshAllData.                             *)
(***************************************************************************)
Fields ==
    { "btcOI", "ethOI", "btcFR", "ethFR", "btcOIHistory", "ethOIHistory",
      "btcFRHistory", "ethFRHistory", "btcLSHistory", "ethLSHistory" }

InitialCache ==
    [btcSymbols |-> <<>>, ethSymbols |-> <<>>,
     data |-> [f \in Fields |-> NULL],
     lastUpdate |-> NULL,
     isRefreshing |-> FALSE]

\* the local constants and variables of refreshAllData that hold fetched bodies
Locals ==
    { "coinalyzeBtcOI", "coinalyzeEthOI", "coinalyzeBtcFR", "coinalyzeEthFR",
      "btcOIHist", "ethOIHist", "btcFRHist", "ethFRHist", "btcLSHist", "ethLSHist" }

\* let btcLSHist = [], ethLSHist = []
InitialLocals ==
    [k \in Locals |-> IF k \in {"btcLSHist", "ethLSHist"} THEN Array(<<>>) ELSE UNDEFINED]

\* pc is the await the function stands at, n the number of the cycle, pending
\* the locals whose requests are in flight, before the cache.data and
\* cache.lastUpdate found when the cycle started
Idle ==
    [pc |-> "idle", n |-> 0, hyperliquid |-> HyperliquidNone, pending |-> {},
     res |-> InitialLocals, before |-> [data |-> NULL, lastUpdate |-> NULL]]

HLSymbol(base) == Sym(base, "", "", "HYPERLIQUID")

\* item.value !== null && item.value !== undefined && Math.abs(item.value) < 1
FRAdmitted(item) ==
    item.value # NULL /\ item.value # UNDEFINED /\ Abs(item.value.num) < Unit

\* hyperliquid.x && Math.abs(hyperliquid.x.fundingRate) < 1
HLFundingAdmitted(entry) == entry # NULL /\ Abs(entry.fundingRate) < Unit

\* a push that keeps the Hyperliquid entries the cache already holds
PushOpenInterestAccumulating(list, base, entry) ==
    LET old == cache.data[IF base = "BTC" THEN "btcOI" ELSE "ethOI"]
        kept == IF old = NULL THEN <<>>
                ELSE SelectSeq(old.items, LAMBDA item : item.symbol = HLSymbol(base))
    IN  IF entry # NULL
        THEN Array(Append(list.items \o kept,
                          [symbol |-> HLSymbol(base), value |-> Num(entry.openInterest)]))
        ELSE list

\* if (hyperliquid.x) list.push({ symbol: 'X.HYPERLIQUID', value: openInterest })
PushOpenInterest(list, base, entry) ==
    IF entry # NULL
    THEN Array(Append(list.items,
                      [symbol |-> HLSymbol(base), value |-> Num(entry.openInterest)]))
    ELSE list

\* if (hyperliquid.x && ...) list.push({ symbol: 'X.HYPERLIQUID', value: fundingRate })
PushFundingRate(list, base, entry) ==
    IF HLFundingAdmitted(entry)
    THEN Array(Append(list.items,
                      [symbol |-> HLSymbol(base), value |-> Num(entry.fundingRate)]))
    ELSE list

\* symbols.find(s => s.includes('.A'))
FindBinance(symbols) ==
    IF \E i \in DOMAIN symbols : CodeOf(symbols[i]) = "A"
    THEN symbols[CHOOSE i \in DOMAIN symbols :
            CodeOf(symbols[i]) = "A"
            /\ \A j \in DOMAIN symbols : CodeOf(symbols[j]) = "A" => i <= j]
    ELSE UNDEFINED

\* the body the upstream holds, in cycle n, for the request whose result goes
\* to local k
BodyOf(k, n) ==
    CASE k = "coinalyzeBtcOI" -> OpenInterestBody(cache.btcSymbols, n)
      [] k = "coinalyzeEthOI" -> OpenInterestBody(cache.ethSymbols, n)
      [] k = "coinalyzeBtcFR" -> FundingRateBody(cache.btcSymbols, n)
      [] k = "coinalyzeEthFR" -> FundingRateBody(cache.ethSymbols, n)
      [] k = "btcOIHist" -> HistoryBody(cache.btcSymbols, n)
      [] k = "ethOIHist" -> HistoryBody(cache.ethSymbols, n)
      [] k = "btcFRHist" -> HistoryBody(cache.btcSymbols, n)
      [] k = "ethFRHist" -> HistoryBody(cache.ethSymbols, n)
      [] k = "btcLSHist" -> LongShortBody(FindBinance(cache.btcSymbols), n)
      [] k = "ethLSHist" -> LongShortBody(FindBinance(cache.ethSymbols), n)

(***************************************************************************)
(* The store block of refreshAllData (1383-1420), statement by statement:  *)
(* spreading or filtering a local that holds undefined throws a TypeError, *)
(* and the assignments made before it stay.  The result is the new         *)
(* cache.data and cache.lastUpdate, the fields assigned, and whether a     *)
(* statement threw.                                                        *)
(***************************************************************************)
Stored(data, lastUpdate, assigned, threw) ==
    [data |-> data, lastUpdate |-> lastUpdate, assigned |-> assigned, threw |-> threw]

\* the catch block reached before the store block
Aborted == Stored(cache.data, cache.lastUpdate, {}, TRUE)

StoreHistory(d, c) ==
    Stored([d EXCEPT !.btcOIHistory = c.res.btcOIHist,
                     !.ethOIHistory = c.res.ethOIHist,
                     !.btcFRHistory = c.res.btcFRHist,
                     !.ethFRHistory = c.res.ethFRHist,
                     !.btcLSHistory = c.res.btcLSHist,
                     !.ethLSHistory = c.res.ethLSHist],
           Num(c.n), Fields, FALSE)

StoreFundingRates(d, c) ==
    IF c.res.coinalyzeBtcFR = UNDEFINED
    THEN Stored(d, cache.lastUpdate, {"btcOI", "ethOI"}, TRUE)
    ELSE LET d1 == [d EXCEPT !.btcFR = Array(SelectSeq(c.res.coinalyzeBtcFR.items, FRAdmitted))]
         IN  IF c.res.coinalyzeEthFR = UNDEFINED
             THEN Stored(d1, cache.lastUpdate, {"btcOI", "ethOI", "btcFR"}, TRUE)
             ELSE LET d2 == [d1 EXCEPT
                               !.ethFR = Array(SelectSeq(c.res.coinalyzeEthFR.items, FRAdmitted))]
                      d3 == [d2 EXCEPT
                               !.btcFR = PushFundingRate(@, "BTC", c.hyperliquid.btc),
                               !.ethFR = PushFundingRate(@, "ETH", c.hyperliquid.eth)]
                  IN  StoreHistory(d3, c)

Store(c) ==
    IF c.res.coinalyzeBtcOI = UNDEFINED
    THEN Stored(cache.data, cache.lastUpdate, {}, TRUE)
    ELSE LET d1 == [cache.data EXCEPT !.btcOI = Array(c.res.coinalyzeBtcOI.items)]
         IN  IF c.res.coinalyzeEthOI = UNDEFINED
             THEN Stored(d1, cache.lastUpdate, {"btcOI"}, TRUE)
             ELSE LET d2 == [d1 EXCEPT !.ethOI = Array(c.res.coinalyzeEthOI.items)]
                      d3 == [d2 EXCEPT
                               !.btcOI = PushOpenInterest(@, "BTC", c.hyperliquid.btc),
                               !.ethOI = PushOpenInterest(@, "ETH", c.hyperliquid.eth)]
                  IN  StoreFundingRates(d3, c)


(***************************************************************************)
(* Events.  last holds the last thing the server did that can be seen from *)
(* outside: a response sent by a route handler, a refreshAllData call that *)
(* returned at its guard, a cycle's start, or its end.                     *)
(***************************************************************************)
Event(kind, ok) ==
    [kind |-> kind, ok |-> ok, route |-> "", coin |-> "", status |-> 0,
     body |-> NULL, writers |-> {}]

ResponseSent(route, coin, status, body, writers) ==
    [kind |-> "response", ok |-> status = 200, route |-> route, coin |-> coin,
     status |-> status, body |-> body, writers |-> writers]

(***************************************************************************)
(* How a completed upstream call is seen by its caller: the value returned *)
(* (a body or undefined), or "thrown".                                     *)
(***************************************************************************)
Completion(r) == IF r.st = "thrown" THEN THROWN ELSE r.value

\* the body the upstream answers a followed request with
SomeBody == Array(<<>>)

\* the same, whatever the body is: "body" stands for the body returned
Kind(r) ==
    IF r.st = "thrown" THEN "thrown"
    ELSE IF r.value = UNDEFINED THEN "undefined" ELSE "body"

\* the ways a call of coinalyzeRequest can complete, over all upstream outcomes
CoinalyzeKinds == { Kind(coinalyzeRequest(SomeBody, outs)) : outs \in OutcomeSeqs }

\* the ways a call of hyperliquidRequest can complete
HyperliquidKinds == { Kind(hyperliquidRequest(SomeBody, outs)) : outs \in OutcomeSeqs }

\* a completed request of the given kind for the given body
Completed(api, body, kind) ==
    [NewRequest(api, body) EXCEPT
        !.st = IF kind = "thrown" THEN "thrown" ELSE "returned",
        !.value = IF kind = "body" THEN body ELSE UNDEFINED]

\* the ways a coinalyzeRequest for `body` can complete
CoinalyzeCompletions(body) ==
    { Completion(Completed("coinalyze", body, kind)) : kind \in CoinalyzeKinds }

\* the ways fetchHyperliquidData can complete in cycle n
HyperliquidCompletions(n) ==
    { fetchHyperliquidData(Completed("hyperliquid", b, kind)) :
        b \in HyperliquidBodies(n), kind \in HyperliquidKinds }

\* an upstream call counts against MaxFaults unless it gave the full body
Fault(nominal) == IF nominal THEN 0 ELSE 1

(***************************************************************************)
(* refreshAllData.                                                         *)
(***************************************************************************)
\* a guard that lets every call through
GuardOff == FALSE

\* if (cache.isRefreshing) return;

Guard == cache.isRefreshing

\* a cycle that sets the symbol lists again when it starts
StartCycleResolving ==
    /\ \/ started < MaxCycles
       \/ active > 0 /\ started <= MaxCycles
    /\ cache' = [cache EXCEPT !.isRefreshing = TRUE,
                              !.btcSymbols = FallbackBtcSymbols,
                              !.ethSymbols = FallbackEthSymbols]
    /\ cyc' = [Idle EXCEPT !.pc = "hyperliquid", !.n = started + 1,
                           !.before = [data |-> cache.data,
                                       lastUpdate |-> cache.lastUpdate]]
    /\ active' = active + 1
    /\ started' = started + 1

\* lines 1307-1317: set the flag, then call fetchHyperliquidData and await it.
\* MaxCycles bounds the cycles started one after the other; a start while a
\* cycle is in progress is admitted once more, so that the absence of overlap
\* is decided by the guard and not by the bound.
StartCycle ==
    /\ \/ started < MaxCycles
       \/ active > 0 /\ started <= MaxCycles
    /\ cache' = [cache EXCEPT !.isRefreshing = TRUE]
    /\ cyc' = [Idle EXCEPT !.pc = "hyperliquid", !.n = started + 1,
                           !.before = [data |-> cache.data,
                                       lastUpdate |-> cache.lastUpdate]]
    /\ active' = active + 1
    /\ started' = started + 1

\* a finally block that leaves the flag as it finds it
FinallyKeeps(flag) == flag

\* the flag after the finally block
Finally(flag) == FALSE

\* the end of the function: what the store block (or the catch block) left,
\* the finally block, and in the app.listen callback the setInterval that
\* follows the first `await refreshAllData()`
EndCycle(c, stored) ==
    /\ cache' = [cache EXCEPT !.data = stored.data,
                              !.lastUpdate = stored.lastUpdate,
                              !.isRefreshing = Finally(@)]
    /\ writer' = [f \in Fields |-> IF f \in stored.assigned THEN cyc.n ELSE writer[f]]
    /\ active' = active - 1
    /\ cyc' = Idle
    /\ IF boot = "refreshing"
       THEN boot' = "running" /\ timer' = TRUE
       ELSE UNCHANGED <<boot, timer>>
    /\ last' = [Event("end", ~stored.threw) EXCEPT !.body = c]

\* the awaited promise settles and refreshAllData goes on to its next await
Continue(c) ==
    /\ cyc' = c
    /\ last' = Event("step", TRUE)
    /\ UNCHANGED <<cache, writer, active, boot, timer>>

\* fetchHyperliquidData completes: await sleep(500)
HyperliquidSettles ==
    /\ cyc.pc = "hyperliquid"
    /\ \E h \in HyperliquidCompletions(cyc.n) :
          LET nominal == IF h = THROWN THEN FALSE ELSE h.btc # NULL /\ h.eth # NULL
          IN  /\ faults + Fault(nominal) <= MaxFaults
              /\ faults' = faults + Fault(nominal)
              /\ IF h = THROWN THEN EndCycle(cyc, Aborted)
                 ELSE Continue([cyc EXCEPT !.hyperliquid = h, !.pc = "sleep500"])
    /\ UNCHANGED <<started, rq>>

\* a sleep ends and the requests of the next Promise.all are issued
Issue(pc, next, locals) ==
    /\ cyc.pc = pc
    /\ Continue([cyc EXCEPT !.pc = next, !.pending = locals])
    /\ UNCHANGED <<started, faults, rq>>

IssueCurrent ==
    Issue("sleep500", "current",
          {"coinalyzeBtcOI", "coinalyzeEthOI", "coinalyzeBtcFR", "coinalyzeEthFR"})

IssueOIHistory == Issue("sleepA", "oiHistory", {"btcOIHist", "ethOIHist"})

IssueFRHistory == Issue("sleepB", "frHistory", {"btcFRHist", "ethFRHist"})

\* lines 1362-1371: the BTC long/short request if there is a Binance symbol,
\* then await sleep(1500)
IssueBtcLongShort ==
    /\ FindBinance(cache.btcSymbols) # UNDEFINED
    /\ Issue("sleepC", "btcLongShort", {"btcLSHist"})

SkipBtcLongShort ==
    /\ FindBinance(cache.btcSymbols) = UNDEFINED
    /\ Issue("sleepC", "sleepLS", {})

\* lines 1373-1378
IssueEthLongShort ==
    /\ FindBinance(cache.ethSymbols) # UNDEFINED
    /\ Issue("sleepLS", "ethLongShort", {"ethLSHist"})

\* no ETH request: the store block runs at once
SkipEthLongShort ==
    /\ cyc.pc = "sleepLS"
    /\ FindBinance(cache.ethSymbols) = UNDEFINED
    /\ EndCycle(cyc, Store(cyc))
    /\ UNCHANGED <<started, faults, rq>>

\* where refreshAllData goes when the awaited Promise.all is fulfilled
AfterGroup(c) ==
    CASE c.pc = "current" -> "sleepA"
      [] c.pc = "oiHistory" -> "sleepB"
      [] c.pc = "frHistory" -> "sleepC"
      [] c.pc = "btcLongShort" -> "sleepLS"

\* one request of the awaited group returns v (a body or undefined).  When it
\* is the last one the function goes on: after the current data, line 1330
\* calls coinalyzeBtcFR.forEach, a TypeError on undefined; after the ETH
\* long/short history the store block runs.
RequestReturns(k) ==
    /\ k \in cyc.pending
    /\ \E v \in CoinalyzeCompletions(BodyOf(k, cyc.n)) \ {THROWN} :
          /\ faults + Fault(v # UNDEFINED) <= MaxFaults
          /\ faults' = faults + Fault(v # UNDEFINED)
          /\ LET c == [cyc EXCEPT !.res[k] = v, !.pending = @ \ {k}]
             IN  IF c.pending # {} THEN Continue(c)
                 ELSE IF c.pc = "current" /\ c.res.coinalyzeBtcFR = UNDEFINED
                      THEN EndCycle(c, Aborted)
                 ELSE IF c.pc = "ethLongShort" THEN EndCycle(c, Store(c))
                 ELSE Continue([c EXCEPT !.pc = AfterGroup(c)])
    /\ UNCHANGED <<started, rq>>

\* a rejection that reaches the outer catch block wherever it happens
RequestThrowsAborts(k) ==
    /\ k \in cyc.pending
    /\ THROWN \in CoinalyzeCompletions(BodyOf(k, cyc.n))
    /\ faults < MaxFaults
    /\ faults' = faults + 1
    /\ EndCycle(cyc, Aborted)
    /\ UNCHANGED <<started, rq>>

\* one request of the awaited group throws after its retries: the Promise.all
\* rejects and the catch block runs, except in the long/short block, whose own
\* catch leads to the store block
RequestThrows(k) ==
    /\ k \in cyc.pending
    /\ THROWN \in CoinalyzeCompletions(BodyOf(k, cyc.n))
    /\ faults < MaxFaults
    /\ faults' = faults + 1
    /\ IF cyc.pc \in {"btcLongShort", "ethLongShort"}
       THEN EndCycle(cyc, Store(cyc))
       ELSE EndCycle(cyc, Aborted)
    /\ UNCHANGED <<started, rq>>


(***************************************************************************)
(* The app.listen callback: initializeSymbols, sleep(2000), the first      *)
(* refreshAllData, then setInterval.                                       *)
(***************************************************************************)
\* initializeSymbols completes on some listing and some upstream outcomes
BootInitializes ==
    /\ boot = "init"
    /\ \E listing \in Listings, kind \in CoinalyzeKinds :
          LET r == Completed("coinalyze", Array(listing), kind)
              nominal == r.st = "returned" /\ r.value # UNDEFINED
              symbols == initializeSymbols(r)
          IN  /\ faults + Fault(nominal) <= MaxFaults
              /\ faults' = faults + Fault(nominal)
              /\ cache' = [cache EXCEPT !.btcSymbols = symbols.btcSymbols,
                                        !.ethSymbols = symbols.ethSymbols]
    /\ boot' = "sleep"
    /\ last' = Event("step", TRUE)
    /\ UNCHANGED <<cyc, active, started, timer, writer, rq>>

\* a callback that calls refreshAllData without awaiting initializeSymbols
BootRefreshesUnawaited ==
    /\ boot \in {"init", "sleep"}
    /\ IF Guard
       THEN /\ timer' = TRUE
            /\ boot' = "running"
            /\ last' = Event("skip", TRUE)
            /\ UNCHANGED <<cache, cyc, active, started>>
       ELSE /\ StartCycle
            /\ boot' = "refreshing"
            /\ last' = Event("start", TRUE)
            /\ UNCHANGED timer
    /\ UNCHANGED <<faults, writer, rq>>

\* sleep(2000) ends: the first call of refreshAllData
BootRefreshes ==
    /\ boot = "sleep"
    /\ IF Guard
       THEN /\ timer' = TRUE
            /\ boot' = "running"
            /\ last' = Event("skip", TRUE)
            /\ UNCHANGED <<cache, cyc, active, started>>
       ELSE /\ StartCycle
            /\ boot' = "refreshing"
            /\ last' = Event("start", TRUE)
            /\ UNCHANGED timer
    /\ UNCHANGED <<faults, writer, rq>>

\* the interval callback calls refreshAllData while a cycle is in progress
TimerSkips ==
    /\ timer
    /\ Guard
    /\ last' = Event("skip", TRUE)
    /\ UNCHANGED <<cache, cyc, active, started, faults, boot, timer, writer, rq>>

\* the interval callback calls refreshAllData and a cycle starts
TimerStarts ==
    /\ timer
    /\ ~Guard
    /\ StartCycle
    /\ last' = Event("start", TRUE)
    /\ UNCHANGED <<faults, boot, timer, writer, rq>>

(***************************************************************************)
(* Numbers computed by the aggregations are exact fractions n/d in lowest  *)
(* terms with d > 0, in the unit of their inputs (millionths).             *)
(***************************************************************************)
RECURSIVE GCD(_, _)
GCD(a, b) == IF b = 0 THEN a ELSE GCD(b, a % b)

Ratio(n, d) ==
    LET sign == IF d < 0 THEN -1 ELSE 1
        g == GCD(Abs(n), Abs(d))
    IN  [n |-> (sign * n) \div g, d |-> (sign * d) \div g]

\* the number held by a value of the upstream data
Exact(value) == Ratio(value.num, 1)

Zero == Ratio(0, 1)

\* a + b
Plus(a, b) == Ratio(a.n * b.d + b.n * a.d, a.d * b.d)

\* a / count
Over(a, count) == Ratio(a.n, a.d * count)

\* a < b
Less(a, b) == a.n * b.d < b.n * a.d

(***************************************************************************)
(* Objects used as maps: the entries [key, value] in insertion order.      *)
(* Object.entries lists the keys that are integer indices first, in        *)
(* ascending order, then the other keys in insertion order.                *)
(***************************************************************************)
MapHas(entries, key) == \E i \in DOMAIN entries : entries[i].key = key

MapGet(entries, key) ==
    entries[CHOOSE i \in DOMAIN entries : entries[i].key = key].value

MapPut(entries, key, value) ==
    IF MapHas(entries, key)
    THEN [i \in DOMAIN entries |->
            IF entries[i].key = key THEN [key |-> key, value |-> value] ELSE entries[i]]
    ELSE Append(entries, [key |-> key, value |-> value])

\* Array.prototype.sort (stable) by a comparator that orders the items by an
\* integer rank: rank[i] is the rank of items[i], lower ranks first
SortByRank(items, rank) ==
    LET Insert(k, sorted) ==
            LET later == { i \in DOMAIN sorted : rank[k] < rank[sorted[i]] }
                at == IF later = {} THEN Len(sorted) + 1
                      ELSE CHOOSE i \in later : \A j \in later : i <= j
            IN  SubSeq(sorted, 1, at - 1) \o <<k>> \o SubSeq(sorted, at, Len(sorted))
        Loop[k \in 0..Len(items)] ==
            IF k = 0 THEN <<>> ELSE Insert(k, Loop[k - 1])
        order == Loop[Len(items)]
    IN  [i \in DOMAIN order |-> items[order[i]]]

\* .sort((a, b) => b.value - a.value): an item ranks after the items of
\* greater value
SortDescendingByValue(items) ==
    SortByRank(items,
               [i \in DOMAIN items |->
                   Cardinality({ j \in DOMAIN items : Less(items[i].value, items[j].value) })])

\* .sort((a, b) => a.t - b.t)
SortAscendingByT(items) == SortByRank(items, [i \in DOMAIN items |-> items[i].t])

\* Object.entries of a map whose keys are exchange names
EntriesOfNames(entries) ==
    LET ints == SelectSeq(entries, LAMBDA e : IntegerKey(e.key) # -1)
    IN  SortByRank(ints, [i \in DOMAIN ints |-> IntegerKey(ints[i].key)])
          \o SelectSeq(entries, LAMBDA e : IntegerKey(e.key) = -1)

\* Object.entries of a map whose keys are timestamps (integer indices all)
EntriesOfTimes(entries) ==
    SortByRank(entries, [i \in DOMAIN entries |-> entries[i].key])

\* items.reduce((s, i) => s + i.value, 0)
RECURSIVE SumValues(_)
SumValues(items) ==
    IF items = <<>> THEN Zero ELSE Plus(Head(items).value, SumValues(Tail(items)))

(***************************************************************************)
(* Helpers of the routes (1433-1491).                                      *)
(***************************************************************************)
\* symbol.includes('HYPERLIQUID'), else COINALYZE_EXCHANGES[code] || code
getExchangeName(symbol) ==
    CASE CodeOf(symbol) = "HYPERLIQUID" -> "Hyperliquid"
      [] CodeOf(symbol) = "A" -> "Binance"
      [] CodeOf(symbol) = "6" -> "Bybit"
      [] CodeOf(symbol) = "4" -> "Huobi"
      [] CodeOf(symbol) = "3" -> "OKX"
      [] OTHER -> CodeOf(symbol)

\* !item.value: null, undefined and 0
FalsyNumber(value) == value = NULL \/ value = UNDEFINED \/ value = Num(0)

\* a loop that assigns where it should add
OILoopLastWins(items, byExchangeMap) ==
    LET Step(map, item) ==
            IF FalsyNumber(item.value) THEN map
            ELSE MapPut(map, getExchangeName(item.symbol), Exact(item.value))
        Loop[k \in 0..Len(items)] ==
            IF k = 0 THEN byExchangeMap ELSE Step(Loop[k - 1], items[k])
    IN  Loop[Len(items)]

\* data.forEach of aggregateOI
OILoop(items, byExchangeMap) ==
    LET Step(map, item) ==
            IF FalsyNumber(item.value) THEN map
            ELSE LET exchange == getExchangeName(item.symbol)
                 IN  MapPut(map, exchange,
                            Plus(IF MapHas(map, exchange) THEN MapGet(map, exchange)
                                 ELSE Zero,
                                 Exact(item.value)))
        Loop[k \in 0..Len(items)] ==
            IF k = 0 THEN byExchangeMap ELSE Step(Loop[k - 1], items[k])
    IN  Loop[Len(items)]

\* Object.entries(...).map(([exchange, value]) => ({ exchange, value }))
ExchangeEntries(entries) ==
    LET listed == EntriesOfNames(entries)
    IN  [i \in DOMAIN listed |-> [exchange |-> listed[i].key, value |-> listed[i].value]]

aggregateOI(data) ==
    IF Falsy(data) THEN [total |-> Zero, byExchange |-> <<>>]
    ELSE LET byExchange == SortDescendingByValue(ExchangeEntries(OILoop(data.items, <<>>)))
         IN  [total |-> SumValues(byExchange), byExchange |-> byExchange]

\* data.forEach of aggregateFR: the sum and the count of each exchange
FRLoop(items, byExchangeMap) ==
    LET Step(map, item) ==
            IF item.value = NULL \/ item.value = UNDEFINED THEN map
            ELSE LET exchange == getExchangeName(item.symbol)
                     old == IF MapHas(map, exchange) THEN MapGet(map, exchange)
                            ELSE [sum |-> Zero, count |-> 0]
                 IN  MapPut(map, exchange,
                            [sum |-> Plus(old.sum, Exact(item.value)),
                             count |-> old.count + 1])
        Loop[k \in 0..Len(items)] ==
            IF k = 0 THEN byExchangeMap ELSE Step(Loop[k - 1], items[k])
    IN  Loop[Len(items)]

\* .map(([exchange, { sum, count }]) => ({ exchange, value: count > 0 ? sum / count : 0 }))
ExchangeMeans(entries) ==
    LET listed == EntriesOfNames(entries)
    IN  [i \in DOMAIN listed |->
            [exchange |-> listed[i].key,
             value |-> IF listed[i].value.count > 0
                       THEN Over(listed[i].value.sum, listed[i].value.count)
                       ELSE Zero]]

\* an average over the instruments instead of over the exchanges
aggregateFRFlat(data) ==
    IF Falsy(data) THEN [average |-> Zero, byExchange |-> <<>>]
    ELSE LET byExchangeMap == FRLoop(data.items, <<>>)
             byExchange == ExchangeMeans(byExchangeMap)
             sums == [i \in DOMAIN byExchangeMap |-> [value |-> byExchangeMap[i].value.sum]]
             counts == [i \in DOMAIN byExchangeMap |->
                          [value |-> Ratio(byExchangeMap[i].value.count, 1)]]
         IN  [average |-> IF Len(byExchange) > 0
                          THEN Over(SumValues(sums), SumValues(counts).n)
                          ELSE Zero,
              byExchange |-> byExchange]

aggregateFR(data) ==
    IF Falsy(data) THEN [average |-> Zero, byExchange |-> <<>>]
    ELSE LET byExchange == ExchangeMeans(FRLoop(data.items, <<>>))
         IN  [average |-> IF Len(byExchange) > 0
                          THEN Over(SumValues(byExchange), Len(byExchange))
                          ELSE Zero,
              byExchange |-> byExchange]

\* if (item.history): an item either has a history, an array, or no such
\* property
HasHistory(item) == "history" \in DOMAIN item

\* the points of all the items that have a history, in forEach order
RECURSIVE HistoryPoints(_)
HistoryPoints(items) ==
    IF items = <<>> THEN <<>>
    ELSE (IF HasHistory(Head(items)) THEN Head(items).history ELSE <<>>)
            \o HistoryPoints(Tail(items))

\* point.c || 0
ValueOrZero(c) == IF FalsyNumber(c) THEN Zero ELSE Exact(c)

\* if (!byTime[point.t]) byTime[point.t] = 0; byTime[point.t] += point.c || 0
SumByTime(points) ==
    LET Step(map, point) ==
            MapPut(map, point.t,
                   Plus(IF MapHas(map, point.t) THEN MapGet(map, point.t) ELSE Zero,
                        ValueOrZero(point.c)))
        Loop[k \in 0..Len(points)] ==
            IF k = 0 THEN <<>> ELSE Step(Loop[k - 1], points[k])
    IN  Loop[Len(points)]

\* Object.entries(byTime).map(([t, value]) => ({ t: parseInt(t) * 1000, value }))
TimeEntries(byTime) ==
    LET listed == EntriesOfTimes(byTime)
    IN  [i \in DOMAIN listed |-> [t |-> listed[i].key * 1000, value |-> listed[i].value]]

\* the entries in the order in which the buckets were first met
TimeEntriesAsMet(byTime) ==
    [i \in DOMAIN byTime |-> [t |-> byTime[i].key * 1000, value |-> byTime[i].value]]

\* aggregateHistory without its sort, on an object that keeps insertion order
aggregateHistoryUnsorted(data) ==
    IF Falsy(data) THEN <<>>
    ELSE TimeEntriesAsMet(SumByTime(HistoryPoints(data.items)))

aggregateHistory(data) ==
    IF Falsy(data) THEN <<>>
    ELSE SortAscendingByT(TimeEntries(SumByTime(HistoryPoints(data.items))))

\* point.c != null
NotNull(v) == v # NULL /\ v # UNDEFINED

\* if (!byTime[point.t]) byTime[point.t] = { sum: 0, count: 0 };
\* if (point.c != null) { byTime[point.t].sum += point.c; byTime[point.t].count += 1 }
CountByTime(points) ==
    LET Step(map, point) ==
            LET seen == IF MapHas(map, point.t) THEN MapGet(map, point.t)
                        ELSE [sum |-> Zero, count |-> 0]
            IN  MapPut(map, point.t,
                       IF NotNull(point.c)
                       THEN [sum |-> Plus(seen.sum, Exact(point.c)), count |-> seen.count + 1]
                       ELSE seen)
        Loop[k \in 0..Len(points)] ==
            IF k = 0 THEN <<>> ELSE Step(Loop[k - 1], points[k])
    IN  Loop[Len(points)]

\* Object.entries(byTime).map(([t, { sum, count }]) =>
\*   ({ t: parseInt(t) * 1000, value: count > 0 ? sum / count : 0 }))
MeanEntries(byTime) ==
    LET listed == EntriesOfTimes(byTime)
    IN  [i \in DOMAIN listed |->
            [t |-> listed[i].key * 1000,
             value |-> IF listed[i].value.count > 0
                       THEN Over(listed[i].value.sum, listed[i].value.count)
                       ELSE Zero]]

averageHistory(data) ==
    IF Falsy(data) THEN <<>>
    ELSE SortAscendingByT(MeanEntries(CountByTime(HistoryPoints(data.items))))

\* (point.r / (1 + point.r)) * 100 and (1 / (1 + point.r)) * 100, where part
\* is point.r or 1: a percentage, in millionths as the upstream numbers are
ShareOf(part, r) ==
    LET share == Ratio(part * 100, Unit + r.num)
    IN  Ratio(share.n * Unit, share.d)

\* { t: parseInt(point.t) * 1000, ratio: point.r,
\*   long: point.l != null ? point.l : ..., short: point.s != null ? point.s : ... }
LSPoint(point) ==
    [t |-> point.t * 1000,
     ratio |-> Exact(point.r),
     long |-> IF NotNull(point.l) THEN Exact(point.l) ELSE ShareOf(point.r.num, point.r),
     short |-> IF NotNull(point.s) THEN Exact(point.s) ELSE ShareOf(Unit, point.r)]

\* allPoints: one point for each point of each series whose r is not null
AllPoints(points) ==
    LET kept == SelectSeq(points, LAMBDA point : NotNull(point.r))
    IN  [i \in DOMAIN kept |-> LSPoint(kept[i])]

processLSHistory(data) ==
    IF Falsy(data) \/ data.items = <<>> THEN <<>>
    ELSE SortAscendingByT(AllPoints(HistoryPoints(data.items)))

(***************************************************************************)
(* Trend analysis (1540-1600).                                             *)
(***************************************************************************)
\* a - b
Minus(a, b) == Plus(a, Ratio(-b.n, b.d))

\* a / b in floating point: a fraction, or Infinity, -Infinity or NaN when b
\* is 0
Divided(a, b) ==
    IF b.n # 0 THEN [kind |-> "finite", value |-> Ratio(a.n * b.d, a.d * b.n)]
    ELSE IF a.n > 0 THEN [kind |-> "Infinity"]
    ELSE IF a.n < 0 THEN [kind |-> "-Infinity"]
    ELSE [kind |-> "NaN"]

\* x * 100
Times100(x) ==
    IF x.kind = "finite" THEN [kind |-> "finite", value |-> Ratio(x.value.n * 100, x.value.d)]
    ELSE x

\* x > bound and x < bound for an integer bound; no comparison holds of NaN
Above(x, bound) ==
    \/ x.kind = "Infinity"
    \/ x.kind = "finite" /\ Less(Ratio(bound, 1), x.value)

Below(x, bound) ==
    \/ x.kind = "-Infinity"
    \/ x.kind = "finite" /\ Less(x.value, Ratio(bound, 1))

\* Math.abs(x)
MathAbs(x) ==
    IF x.kind = "finite" THEN [kind |-> "finite", value |-> Ratio(Abs(x.value.n), x.value.d)]
    ELSE IF x.kind = "-Infinity" THEN [kind |-> "Infinity"]
    ELSE x

\* x.toFixed(digits), per is 10^digits: the count of units of 1/per nearest
\* to x (x is in millionths when scaled, a bare number otherwise)
ToFixed(x, per, scaled) ==
    IF x.kind # "finite" THEN [text |-> x.kind]
    ELSE LET unit == IF scaled THEN Unit ELSE 1
             twice == (2 * Abs(x.value.n) * per + x.value.d * unit)
                          \div (2 * x.value.d * unit)
         IN  [text |-> "fixed", negative |-> x.value.n < 0 /\ twice > 0,
              units |-> twice, per |-> per]

\* 1. funding rate: avgFR > 0.001, else avgFR < -0.001
FundingSignal(avgFR) ==
    IF Less(Ratio(Unit \div 1000, 1), avgFR) THEN "bullish"
    ELSE IF Less(avgFR, Ratio(-(Unit \div 1000), 1)) THEN "bearish"
    ELSE "none"

\* the change from the first point to the last one
OIChangeEndpoints(oiHistory) ==
    Times100(Divided(Minus(oiHistory[Len(oiHistory)].value, oiHistory[1].value),
                     oiHistory[1].value))

\* ((avgLast - avgFirst) / avgFirst) * 100 over the first and the last
\* Math.floor(length / 3) points
OIChange(oiHistory) ==
    LET third == Len(oiHistory) \div 3
        firstThird == SubSeq(oiHistory, 1, third)
        lastThird == SubSeq(oiHistory, Len(oiHistory) - third + 1, Len(oiHistory))
        avgFirst == Over(SumValues(firstThird), Len(firstThird))
        avgLast == Over(SumValues(lastThird), Len(lastThird))
    IN  Times100(Divided(Minus(avgLast, avgFirst), avgFirst))

\* 2. open interest: only with 6 points or more; oiChange > 5, else
\* oiChange < -5
OISignal(oiHistory) ==
    IF Len(oiHistory) >= 6
    THEN LET oiChange == OIChange(oiHistory)
         IN  IF Above(oiChange, 5) THEN "bullish"
             ELSE IF Below(oiChange, -5) THEN "bearish"
             ELSE "none"
    ELSE "none"

\* 3. long/short: the ratio of lsHistory[lsHistory.length - 1] > 1.1, else
\* < 0.9
LSSignal(lsHistory) ==
    IF Len(lsHistory) > 0
    THEN LET latest == lsHistory[Len(lsHistory)]
         IN  IF Less(Ratio(11 * (Unit \div 10), 1), latest.ratio) THEN "bullish"
             ELSE IF Less(latest.ratio, Ratio(9 * (Unit \div 10), 1)) THEN "bearish"
             ELSE "none"
    ELSE "none"

\* the reasons without the push of the open-interest branch
ReasonsWithoutOpenInterest(funding, oi, ls, oiHistory, lsHistory) ==
    (CASE funding = "bullish" ->
            <<[text |-> "Positive funding rate indicates bullish sentiment"]>>
       [] funding = "bearish" ->
            <<[text |-> "Negative funding rate indicates bearish sentiment"]>>
       [] OTHER -> <<>>)
    \o (CASE ls = "bullish" -> <<[text |-> "Long/Short ratio - more longs than shorts"]>>
          [] ls = "bearish" -> <<[text |-> "Long/Short ratio - more shorts than longs"]>>
          [] OTHER -> <<>>)

\* the reasons pushed, in the order of the three signals
Reasons(funding, oi, ls, oiHistory, lsHistory) ==
    (CASE funding = "bullish" ->
            <<[text |-> "Positive funding rate indicates bullish sentiment"]>>
       [] funding = "bearish" ->
            <<[text |-> "Negative funding rate indicates bearish sentiment"]>>
       [] OTHER -> <<>>)
    \o (CASE oi = "bullish" ->
               <<[text |-> "Open Interest up % over 5 days",
                  number |-> ToFixed(OIChange(oiHistory), 10, FALSE)]>>
          [] oi = "bearish" ->
               <<[text |-> "Open Interest down % over 5 days",
                  number |-> ToFixed(MathAbs(OIChange(oiHistory)), 10, FALSE)]>>
          [] OTHER -> <<>>)
    \o (CASE ls = "bullish" ->
               <<[text |-> "Long/Short ratio - more longs than shorts",
                  number |-> ToFixed([kind |-> "finite",
                                      value |-> lsHistory[Len(lsHistory)].ratio],
                                     100, TRUE)]>>
          [] ls = "bearish" ->
               <<[text |-> "Long/Short ratio - more shorts than longs",
                  number |-> ToFixed([kind |-> "finite",
                                      value |-> lsHistory[Len(lsHistory)].ratio],
                                     100, TRUE)]>>
          [] OTHER -> <<>>)

\* the number of the signals of one kind
Count(kind, funding, oi, ls) ==
    (IF funding = kind THEN 1 ELSE 0) + (IF oi = kind THEN 1 ELSE 0)
      + (IF ls = kind THEN 1 ELSE 0)

\* the classification without its last line: three signals of a kind are
\* of moderate confidence
ClassifyNeverHigh(bullish, bearish) ==
    [trend |-> IF bullish > bearish THEN "bullish"
               ELSE IF bearish > bullish THEN "bearish"
               ELSE "neutral",
     confidence |-> IF bullish >= 2 \/ bearish >= 2 THEN "moderate" ELSE "low"]

\* a classification whose last line tests 2 in place of 3
ClassifyHighFromTwo(bullish, bearish) ==
    [trend |-> IF bullish > bearish THEN "bullish"
               ELSE IF bearish > bullish THEN "bearish"
               ELSE "neutral",
     confidence |-> IF bullish >= 2 \/ bearish >= 2 THEN "high" ELSE "low"]

\* trend and confidence from the two counts (1586-1597)
Classify(bullish, bearish) ==
    LET trend == IF bullish > bearish THEN "bullish"
                 ELSE IF bearish > bullish THEN "bearish"
                 ELSE "neutral"
        confidence == IF bullish > bearish
                      THEN (IF bullish >= 2 THEN "moderate" ELSE "low")
                      ELSE IF bearish > bullish
                      THEN (IF bearish >= 2 THEN "moderate" ELSE "low")
                      ELSE "low"
    IN  [trend |-> trend,
         confidence |-> IF bullish >= 3 \/ bearish >= 3 THEN "high" ELSE confidence]

analyzeTrend(coin) ==
    LET frData == IF coin = "BTC" THEN cache.data.btcFR ELSE cache.data.ethFR
        oiHistory == aggregateHistory(IF coin = "BTC" THEN cache.data.btcOIHistory
                                      ELSE cache.data.ethOIHistory)
        lsHistory == processLSHistory(IF coin = "BTC" THEN cache.data.btcLSHistory
                                      ELSE cache.data.ethLSHistory)
        funding == FundingSignal(aggregateFR(frData).average)
        oi == OISignal(oiHistory)
        ls == LSSignal(lsHistory)
        bullish == Count("bullish", funding, oi, ls)
        bearish == Count("bearish", funding, oi, ls)
        class == Classify(bullish, bearish)
    IN  [trend |-> class.trend, confidence |-> class.confidence,
         signals |-> [bullish |-> bullish, bearish |-> bearish],
         reasons |-> Reasons(funding, oi, ls, oiHistory, lsHistory)]

(***************************************************************************)
(* Route handlers (1605-1656).                                             *)
(***************************************************************************)
DataRoutes ==
    { "open-interest", "funding-rate", "open-interest-history",
      "funding-rate-history", "long-short-history" }

\* values of the :coin parameter
CoinParams == { "BTC", "btc", "ETH", "DOGE" }

\* req.params.coin.toUpperCase()
ToUpperCase(param) ==
    CASE param = "btc" -> "BTC" [] param = "eth" -> "ETH" [] param = "doge" -> "DOGE"
      [] OTHER -> param

\* coin === 'BTC' ? cache.data.btcX : cache.data.ethX
FieldOf(route, coin) ==
    CASE route = "open-interest" -> IF coin = "BTC" THEN "btcOI" ELSE "ethOI"
      [] route = "funding-rate" -> IF coin = "BTC" THEN "btcFR" ELSE "ethFR"
      [] route = "open-interest-history" ->
            IF coin = "BTC" THEN "btcOIHistory" ELSE "ethOIHistory"
      [] route = "funding-rate-history" ->
            IF coin = "BTC" THEN "btcFRHistory" ELSE "ethFRHistory"
      [] route = "long-short-history" ->
            IF coin = "BTC" THEN "btcLSHistory" ELSE "ethLSHistory"

\* the status a data route answers with in the current state
DataStatus(route, coin) ==
    IF Falsy(cache.data[FieldOf(route, coin)]) THEN 503 ELSE 200

\* if (!cache.data.btcOI) return res.status(503)
TrendStatus == IF Falsy(cache.data.btcOI) THEN 503 ELSE 200

\* the cache.data fields analyzeTrend reads
TrendFields(coin) ==
    IF coin = "BTC" THEN {"btcFR", "btcOIHistory", "btcLSHistory"}
    ELSE {"ethFR", "ethOIHistory", "ethLSHistory"}

\* a classifier that keeps its signals object from one call to the next: the
\* reasons of a call follow those of the previous answer
TrendBodyAccumulating(coin) ==
    LET a == analyzeTrend(coin)
        kept == IF last.kind = "response" /\ last.route = "trend" /\ last.status = 200
                THEN last.body.reasons ELSE <<>>
    IN  [coin |-> coin, trend |-> a.trend, confidence |-> a.confidence,
         signals |-> a.signals, reasons |-> kept \o a.reasons,
         timestamp |-> cache.lastUpdate]

\* { coin, ...analyzeTrend(coin), timestamp: cache.lastUpdate }
TrendBody(coin) ==
    LET a == analyzeTrend(coin)
    IN  [coin |-> coin, trend |-> a.trend, confidence |-> a.confidence,
         signals |-> a.signals, reasons |-> a.reasons, timestamp |-> cache.lastUpdate]

Loading == [error |-> "Loading..."]

\* a handler that starts a refresh when none is in progress
RespondOnDemand(response) ==
    /\ last.kind # "response"
    /\ last' = response
    /\ IF ~cache.isRefreshing /\ started < MaxCycles
       THEN StartCycle
       ELSE UNCHANGED <<cache, cyc, active, started>>
    /\ UNCHANGED <<faults, boot, timer, writer, rq>>

\* A response replaces the last event and changes nothing else, so a request
\* handled right after another one leaves the state it would leave handled
\* alone: requests are taken one at a time between two steps of the server.
Respond(response) ==
    /\ last.kind # "response"
    /\ last' = response
    /\ UNCHANGED <<cache, cyc, active, started, faults, boot, timer, writer, rq>>

\* res.json({ coin, ...aggregateOI(data), timestamp: cache.lastUpdate }) and
\* its counterparts
Body(route, coin, field) ==
    CASE route = "open-interest" ->
           LET a == aggregateOI(cache.data[field])
           IN  [coin |-> coin, total |-> a.total, byExchange |-> a.byExchange,
                timestamp |-> cache.lastUpdate]
      [] route = "funding-rate" ->
           LET a == aggregateFR(cache.data[field])
           IN  [coin |-> coin, average |-> a.average, byExchange |-> a.byExchange,
                timestamp |-> cache.lastUpdate]
      [] route = "open-interest-history" ->
           [coin |-> coin, history |-> aggregateHistory(cache.data[field]),
            timestamp |-> cache.lastUpdate]
      [] route = "funding-rate-history" ->
           [coin |-> coin, history |-> averageHistory(cache.data[field]),
            timestamp |-> cache.lastUpdate]
      [] route = "long-short-history" ->
           [coin |-> coin, history |-> processLSHistory(cache.data[field]),
            timestamp |-> cache.lastUpdate]

\* GET /api/<metric>/:coin for the five data routes
HandleData(route, param) ==
    LET coin == ToUpperCase(param)
        field == FieldOf(route, coin)
    IN  IF DataStatus(route, coin) = 503
        THEN Respond(ResponseSent(route, coin, 503, Loading, {writer[field]}))
        ELSE Respond(ResponseSent(route, coin, 200, Body(route, coin, field),
                                  {writer[field]}))

\* GET /api/trend/:coin
HandleTrend(param) ==
    LET coin == ToUpperCase(param)
        fields == TrendFields(coin)
    IN  IF TrendStatus = 503
        THEN Respond(ResponseSent("trend", coin, 503, Loading, {writer.btcOI}))
        ELSE Respond(ResponseSent("trend", coin, 200, TrendBody(coin),
                                  { writer[f] : f \in fields \cup {"btcOI"} }))

\* GET /api/debug
HandleDebug ==
    Respond(ResponseSent("debug", "", 200,
                         [btcSymbols |-> cache.btcSymbols, ethSymbols |-> cache.ethSymbols,
                          lastUpdate |-> cache.lastUpdate, sampleFR |-> cache.data.btcFR,
                          sampleLS |-> cache.data.btcLSHistory],
                         {writer.btcFR, writer.btcLSHistory}))

Handles ==
    \/ \E route \in DataRoutes, param \in CoinParams : HandleData(route, param)
    \/ \E param \in CoinParams : HandleTrend(param)
    \/ HandleDebug

(***************************************************************************)
(* The server.                                                             *)
(***************************************************************************)
\* a step of the cycle in progress: an awaited fetch resolves or rejects, or
\* an awaited sleep ends
CycleStep ==
    \/ HyperliquidSettles
    \/ IssueCurrent
    \/ IssueOIHistory
    \/ IssueFRHistory
    \/ IssueBtcLongShort
    \/ SkipBtcLongShort
    \/ IssueEthLongShort
    \/ SkipEthLongShort
    \/ \E k \in Locals : RequestReturns(k)
    \/ \E k \in Locals : RequestThrows(k)

IdleRequest == NewRequest("coinalyze", SomeBody)

Init ==
    /\ cache = InitialCache
    /\ cyc = Idle
    /\ active = 0
    /\ started = 0
    /\ faults = 0
    /\ boot = "init"
    /\ timer = FALSE
    /\ writer = [f \in Fields |-> 0]
    /\ last = Event("listen", TRUE)
    /\ rq = IdleRequest

Next ==
    \/ BootInitializes
    \/ BootRefreshes
    \/ TimerSkips
    \/ TimerStarts
    \/ HyperliquidSettles
    \/ IssueCurrent
    \/ IssueOIHistory
    \/ IssueFRHistory
    \/ IssueBtcLongShort
    \/ SkipBtcLongShort
    \/ IssueEthLongShort
    \/ SkipEthLongShort
    \/ \E k \in Locals : RequestReturns(k)
    \/ \E k \in Locals : RequestThrows(k)
    \/ Handles

Spec == Init /\ [][Next]_vars

\* the server when every fetch awaited settles and every sleep awaited ends
SpecFair == Init /\ [][Next]_vars /\ WF_vars(CycleStep)

(***************************************************************************)
(* One upstream request followed fetch by fetch: each step is one          *)
(* iteration of the retry loop on some upstream outcome.                   *)
(***************************************************************************)
InitRequest ==
    /\ cache = InitialCache
    /\ cyc = Idle
    /\ active = 0
    /\ started = 0
    /\ faults = 0
    /\ boot = "init"
    /\ timer = FALSE
    /\ writer = [f \in Fields |-> 0]
    /\ last = Event("listen", TRUE)
    /\ rq \in { NewRequest(api, SomeBody) : api \in {"coinalyze", "hyperliquid"} }

Fetches ==
    /\ rq.st = "pending"
    /\ \E o \in Outcomes : rq' = Iteration(rq, o)
    /\ UNCHANGED <<cache, cyc, active, started, faults, boot, timer, writer, last>>

SpecRequest == InitRequest /\ [][Fetches]_vars

(***************************************************************************)
(* The symbol resolver on its own: initializeSymbols run once on a market  *)
(* listing of up to MaxListing entries drawn from MarketPool, for every    *)
(* way its coinalyzeRequest('/future-markets') can complete.  rq is that   *)
(* request, its body the listing.                                          *)
(***************************************************************************)
MarketPool ==
    { Market(Sym("BTC", "USD", "_PERP", "A"), TRUE),
      Market(Sym("BTC", "USDT", "_PERP", "A"), TRUE),
      Market(Sym("BTC", "USDC", "_PERP", "A"), TRUE),
      Market(Sym("BTC", "USDT", "", "A"), TRUE),
      Market(Sym("BTC", "USDT", "", "6"), TRUE),
      Market(Sym("BTC", "USDT", "_PERP", "3"), FALSE),
      Market(Sym("BTC", "USDT", "_PERP", "0"), TRUE),
      Market(Sym("ETH", "USDT", "_PERP", "A"), TRUE),
      Market(Sym("ETH", "USD", "_PERP", "4"), TRUE) }

ListingsUpTo(n) == UNION { [1..k -> MarketPool] : k \in 0..n }

InitSymbols ==
    /\ cache = InitialCache
    /\ cyc = Idle
    /\ active = 0
    /\ started = 0
    /\ faults = 0
    /\ boot = "init"
    /\ timer = FALSE
    /\ writer = [f \in Fields |-> 0]
    /\ last = Event("listen", TRUE)
    /\ rq \in { NewRequest("coinalyze", Array(listing)) : listing \in ListingsUpTo(MaxListing) }

\* await initializeSymbols(): the request completes, the symbol lists are set
\* and the function returns true or false
Resolves ==
    /\ boot = "init"
    /\ \E kind \in CoinalyzeKinds :
          LET r == Completed("coinalyze", rq.body, kind)
              symbols == initializeSymbols(r)
          IN  /\ cache' = [cache EXCEPT !.btcSymbols = symbols.btcSymbols,
                                        !.ethSymbols = symbols.ethSymbols]
              /\ rq' = r
              /\ last' = Event("initialized", symbols.result)
    /\ boot' = "sleep"
    /\ UNCHANGED <<cyc, active, started, faults, timer, writer>>

SpecSymbols == InitSymbols /\ [][Resolves]_vars


(***************************************************************************)
(* The store block on its own: a first refresh cycle that has fetched all  *)
(* its data and stands at the end of sleep(1500), with no Binance symbol,  *)
(* so that its next step is the store block.  The current funding rates    *)
(* fetched are drawn from FundingValues, the Hyperliquid hourly funding    *)
(* from HourlyFundings.                                                    *)
(***************************************************************************)
\* item.value of a /funding-rate item, in millionths: 0.004999, 0.005, 1, ...
FundingValues ==
    { Num(0), Num(4999), Num(5000), Num(-5000), Num(5001), Num(Unit - 1), Num(Unit),
      Num(-Unit), NULL, UNDEFINED }

\* Hyperliquid's hourly funding, in millionths: 8-hour percentages 0.0048,
\* 0.0056 and 1
HourlyFundings == { 6, 7, 1250 }

\* a metaAndAssetCtxs body with the given hourly funding for every asset
HyperliquidFundingMeta(funding) ==
    [universe |-> <<"BTC", "ETH">>,
     assetCtxs |-> [i \in 1..2 |-> [funding |-> funding, openInterest |-> 1, markPx |-> 2]]]

\* the symbol lists selected from a listing without Binance
SymbolsNoBinance == initializeSymbols(Completed("coinalyze", Array(ListingNoBinance), "body"))

FundingRateItems(symbols, value) ==
    Array([i \in DOMAIN symbols |-> [symbol |-> symbols[i], value |-> value]])

InitStore ==
    /\ cache = [InitialCache EXCEPT !.btcSymbols = SymbolsNoBinance.btcSymbols,
                                    !.ethSymbols = SymbolsNoBinance.ethSymbols,
                                    !.isRefreshing = TRUE]
    /\ \E v \in FundingValues, w \in FundingValues,
          h \in { fetchHyperliquidData(Completed("hyperliquid",
                                                 HyperliquidFundingMeta(f), "body")) :
                    f \in HourlyFundings } \cup { HyperliquidNone } :
          cyc = [Idle EXCEPT
                   !.pc = "sleepLS", !.n = 1, !.hyperliquid = h,
                   !.before = [data |-> InitialCache.data, lastUpdate |-> NULL],
                   !.res = [k \in Locals |->
                              CASE k = "coinalyzeBtcFR" ->
                                     FundingRateItems(SymbolsNoBinance.btcSymbols, v)
                                [] k = "coinalyzeEthFR" ->
                                     FundingRateItems(SymbolsNoBinance.ethSymbols, w)
                                [] k = "coinalyzeBtcOI" ->
                                     OpenInterestBody(SymbolsNoBinance.btcSymbols, 1)
                                [] k = "coinalyzeEthOI" ->
                                     OpenInterestBody(SymbolsNoBinance.ethSymbols, 1)
                                [] k \in {"btcOIHist", "btcFRHist"} ->
                                     HistoryBody(SymbolsNoBinance.btcSymbols, 1)
                                [] k \in {"ethOIHist", "ethFRHist"} ->
                                     HistoryBody(SymbolsNoBinance.ethSymbols, 1)
                                [] OTHER -> Array(<<>>)]]
    /\ active = 1
    /\ started = 1
    /\ faults = 0
    /\ boot = "refreshing"
    /\ timer = FALSE
    /\ writer = [f \in Fields |-> 0]
    /\ last = Event("step", TRUE)
    /\ rq = IdleRequest

SpecStore == InitStore /\ [][SkipEthLongShort]_vars

(***************************************************************************)
(* The routes on their own: the server after a first published cycle, no   *)
(* cycle in progress, with one cache.data field of BTC holding up to       *)
(* MaxItems items (or history points) drawn from the pools below, and a    *)
(* request for BTC arriving at one of the data routes.                     *)
(***************************************************************************)
\* two Binance instruments and one of Bybit
ItemSymbols ==
    { Sym("BTC", "USDT", "_PERP", "A"), Sym("BTC", "USD", "_PERP", "A"),
      Sym("BTC", "USDT", "", "6") }

\* open interest: no value, 0, 50 and 100
OIItems ==
    { [symbol |-> sym, value |-> v] :
        sym \in ItemSymbols, v \in { NULL, Num(0), Num(50 * Unit), Num(100 * Unit) } }

\* funding rates: no value, 0, 0.01, 0.02 and 0.05
FRItems ==
    { [symbol |-> sym, value |-> v] :
        sym \in ItemSymbols, v \in { NULL, Num(0), Num(10000), Num(20000), Num(50000) } }

\* history points of two instruments: bucket 1 or 2, value none, 1, 2 or 3
SeriesPoints ==
    { [series |-> k, t |-> t, c |-> c] :
        k \in 1..2, t \in 1..2, c \in { NULL, Num(Unit), Num(2 * Unit), Num(3 * Unit) } }

\* the history of the instrument k among the points drawn
HistoryOf(points, k) ==
    LET own == SelectSeq(points, LAMBDA pt : pt.series = k)
    IN  [i \in DOMAIN own |-> [t |-> own[i].t, c |-> own[i].c]]

\* the body of a history endpoint: one series per instrument
HistoryItems(points) ==
    << [symbol |-> Sym("BTC", "USDT", "_PERP", "A"), history |-> HistoryOf(points, 1)],
       [symbol |-> Sym("BTC", "USDT", "", "6"), history |-> HistoryOf(points, 2)] >>

\* funding-rate history points of two instruments: bucket 1 or 2, value
\* none, 0, 0.001 or 2
FRSeriesPoints ==
    { [series |-> k, t |-> t, c |-> c] :
        k \in 1..2, t \in 1..2, c \in { NULL, Num(0), Num(1000), Num(2 * Unit) } }

\* long/short points of two instruments: bucket 1 or 2, no ratio, the ratio 1
\* without its percentages, or the ratio 3 with them
LSSeriesPoints ==
    { [series |-> k, t |-> t, r |-> reading.r, l |-> reading.l, s |-> reading.s] :
        k \in 1..2, t \in 1..2,
        reading \in { [r |-> NULL, l |-> NULL, s |-> NULL],
                      [r |-> Num(Unit), l |-> NULL, s |-> NULL],
                      [r |-> Num(3 * Unit), l |-> Num(75 * Unit), s |-> Num(25 * Unit)] } }

\* the long/short history of the instrument k among the points drawn
LSHistoryOf(points, k) ==
    LET own == SelectSeq(points, LAMBDA pt : pt.series = k)
    IN  [i \in DOMAIN own |->
            [t |-> own[i].t, r |-> own[i].r, l |-> own[i].l, s |-> own[i].s]]

\* the body of the long/short endpoint: one series per instrument
LSHistoryItems(points) ==
    << [symbol |-> Sym("BTC", "USDT", "_PERP", "A"), history |-> LSHistoryOf(points, 1)],
       [symbol |-> Sym("BTC", "USDT", "", "6"), history |-> LSHistoryOf(points, 2)] >>

\* a snapshot of empty lists
EmptySnapshot == [f \in Fields |-> Array(<<>>)]

\* the cache after a first cycle that published the given snapshot
Published(data) ==
    [InitialCache EXCEPT !.btcSymbols = SymbolsNoBinance.btcSymbols,
                         !.ethSymbols = SymbolsNoBinance.ethSymbols,
                         !.data = data,
                         !.lastUpdate = Num(1)]

InitRoutes ==
    /\ \E k \in 0..MaxItems :
          \/ \E items \in [1..k -> OIItems] :
                cache = Published([EmptySnapshot EXCEPT !.btcOI = Array(items)])
          \/ \E items \in [1..k -> FRItems] :
                cache = Published([EmptySnapshot EXCEPT !.btcFR = Array(items)])
          \/ \E points \in [1..k -> SeriesPoints] :
                cache = Published([EmptySnapshot EXCEPT
                                     !.btcOIHistory = Array(HistoryItems(points))])
          \/ \E points \in [1..k -> FRSeriesPoints] :
                cache = Published([EmptySnapshot EXCEPT
                                     !.btcFRHistory = Array(HistoryItems(points))])
          \/ \E points \in [1..k -> LSSeriesPoints] :
                cache = Published([EmptySnapshot EXCEPT
                                     !.btcLSHistory = Array(LSHistoryItems(points))])
    /\ cyc = Idle
    /\ active = 0
    /\ started = 1
    /\ faults = 0
    /\ boot = "running"
    /\ timer = TRUE
    /\ writer = [f \in Fields |-> 1]
    /\ last = Event("step", TRUE)
    /\ rq = IdleRequest

ServesBtc == \E route \in DataRoutes : HandleData(route, "BTC")

SpecRoutes == InitRoutes /\ [][ServesBtc]_vars

(***************************************************************************)
(* The trend route on its own: a first cycle publishes the three           *)
(* cache.data fields of BTC that analyzeTrend reads, drawn from the pools  *)
(* below, one field at a time beside empty lists and then the three        *)
(* together; a request for BTC or for ETH arrives at the trend route       *)
(* before or after the cycle.                                              *)
(***************************************************************************)
\* the most buckets of an open-interest history
MaxBuckets == 6

\* the most funding rates, and the most long/short points
MaxTrendItems == 2

\* funding rates on either side of 0.0001 and of 0.001, on two exchanges
TrendFRItems ==
    { [symbol |-> sym, value |-> v] :
        sym \in { Sym("BTC", "USDT", "_PERP", "A"), Sym("BTC", "USDT", "", "6") },
        v \in { NULL, Num(-1001), Num(-1000), Num(-101), Num(-100), Num(0),
                Num(100), Num(101), Num(1000), Num(1001) } }

\* open interest of a bucket: 5% lies between 100 and 105, and between 100
\* and 95
TrendOIValues == { Num(0), Num(95), Num(100), Num(105), Num(106) }

\* one series of open interest with the values given, bucket i at time i
OISeries(values) ==
    << [symbol |-> Sym("BTC", "USDT", "_PERP", "A"),
        history |-> [i \in DOMAIN values |-> [t |-> i, c |-> values[i]]]] >>

\* long/short readings on either side of 0.9 and of 1.1; the readings 1 and
\* 3 come without their percentages
LSReadings ==
    { [r |-> NULL, l |-> NULL, s |-> NULL],
      [r |-> Num(899999), l |-> Num(47 * Unit), s |-> Num(53 * Unit)],
      [r |-> Num(900000), l |-> Num(47 * Unit), s |-> Num(53 * Unit)],
      [r |-> Num(Unit), l |-> NULL, s |-> NULL],
      [r |-> Num(3 * Unit), l |-> NULL, s |-> NULL],
      [r |-> Num(1100000), l |-> Num(52 * Unit), s |-> Num(48 * Unit)],
      [r |-> Num(1100001), l |-> Num(52 * Unit), s |-> Num(48 * Unit)] }

\* a reading in bucket 1 or 2
LSPoints ==
    { [t |-> t, r |-> reading.r, l |-> reading.l, s |-> reading.s] :
        t \in 1..2, reading \in LSReadings }

\* the series of the one instrument asked for
LSSeries(points) ==
    << [symbol |-> Sym("BTC", "USDT", "_PERP", "A"), history |-> points] >>

\* a funding rate, a six-bucket history and a reading for each outcome of
\* each signal
SignalFundings == { Num(-1001), Num(0), Num(1001) }

SignalHistories ==
    { << Num(100), Num(100), Num(100), Num(100), Num(100), Num(100) >>,
      << Num(100), Num(100), Num(100), Num(100), Num(106), Num(106) >>,
      << Num(106), Num(106), Num(100), Num(100), Num(100), Num(100) >> }

SignalReadings ==
    { reading \in LSReadings : reading.r \in { Num(899999), Num(Unit), Num(1100001) } }

InitTrend ==
    /\ cache = [Published(InitialCache.data) EXCEPT !.lastUpdate = NULL]
    /\ cyc = Idle
    /\ active = 0
    /\ started = 0
    /\ faults = 0
    /\ boot = "running"
    /\ timer = TRUE
    /\ writer = [f \in Fields |-> 0]
    /\ last = Event("listen", TRUE)
    /\ rq = IdleRequest

\* the first cycle, taken in one step from its start to its store block
PublishesTrendInputs ==
    /\ cache.lastUpdate = NULL
    /\ \/ \E k \in 0..MaxTrendItems : \E items \in [1..k -> TrendFRItems] :
             cache' = Published([EmptySnapshot EXCEPT !.btcFR = Array(items)])
       \/ \E k \in 0..MaxBuckets : \E values \in [1..k -> TrendOIValues] :
             cache' = Published([EmptySnapshot EXCEPT
                                   !.btcOIHistory = Array(OISeries(values))])
       \/ \E k \in 0..MaxTrendItems : \E points \in [1..k -> LSPoints] :
             cache' = Published([EmptySnapshot EXCEPT
                                   !.btcLSHistory = Array(LSSeries(points))])
       \/ \E funding \in SignalFundings, values \in SignalHistories,
             reading \in SignalReadings :
             cache' = Published([EmptySnapshot EXCEPT
                        !.btcFR = Array(<< [symbol |-> Sym("BTC", "USDT", "_PERP", "A"),
                                            value |-> funding] >>),
                        !.btcOIHistory = Array(OISeries(values)),
                        !.btcLSHistory =
                            Array(LSSeries(<< [t |-> 1, r |-> reading.r, l |-> reading.l,
                                               s |-> reading.s] >>))])
    /\ started' = 1
    /\ writer' = [f \in Fields |-> 1]
    /\ last' = Event("step", TRUE)
    /\ UNCHANGED <<cyc, active, faults, boot, timer, rq>>

ServesTrend == \E param \in { "BTC", "ETH" } : HandleTrend(param)

SpecTrend == InitTrend /\ [][PublishesTrendInputs \/ ServesTrend]_vars

(***************************************************************************)
(* Properties of the retry loops (SpecRequest).                            *)
(***************************************************************************)
Is429(o) == o.type = "response" /\ o.status = 429

No429(seen) == \A i \in DOMAIN seen : ~Is429(seen[i])

\* the outcomes of seen that are failures: transport errors and non-success
\* responses other than 429
Failures(seen) == Cardinality({ i \in DOMAIN seen : ~Ok(seen[i]) /\ ~Is429(seen[i]) })

\* the sleeps 2000 ms x attempt number after the attempts 1..k
BackoffsUpTo(k) == [i \in 1..k |-> 2000 * i]

\* C5: every call of coinalyzeRequest or hyperliquidRequest that completes
\* either returns the body of a successful response or throws; it never
\* completes normally without a body.
C5_ReturnsBodyOrThrows == rq.st = "returned" => rq.value = rq.body

\* C6: a 429 response does not count against the retry budget of
\* coinalyzeRequest: the attempt counter advances only on failures, the
\* request throws only after 3 failures, and a request that returns returns
\* the body.
C6_RateLimitKeepsBudget ==
    rq.api = "coinalyze" =>
        /\ rq.st = "pending" => rq.attempt = 1 + Failures(rq.seen)
        /\ rq.st = "thrown" => Failures(rq.seen) = 3
        /\ rq.st = "returned" => rq.value = rq.body

\* C7: on upstream outcomes that are failures (no 429 among them) both request
\* helpers make at most 3 fetches, sleep 2000 ms x attempt number between
\* consecutive attempts, throw only after the 3rd failed attempt with no sleep
\* after it, and return the body of a success on attempt 1, 2 or 3.
C7_ThreeAttemptsWithBackoff ==
    No429(rq.seen) =>
        /\ Len(rq.seen) <= 3
        /\ rq.st = "pending" =>
              /\ Failures(rq.seen) = Len(rq.seen)
              /\ Len(rq.seen) < 3
              /\ rq.sleeps = BackoffsUpTo(Len(rq.seen))
        /\ rq.st = "thrown" =>
              /\ Failures(rq.seen) = 3
              /\ rq.sleeps = BackoffsUpTo(2)
        /\ rq.st = "returned" =>
              /\ rq.seen # <<>>
              /\ Ok(rq.seen[Len(rq.seen)])
              /\ Failures(rq.seen) = Len(rq.seen) - 1
              /\ rq.value = rq.body
              /\ rq.sleeps = BackoffsUpTo(Len(rq.seen) - 1)

\* a coinalyzeRequest that threw after three failures and two backoffs
C7_Witness ==
    /\ rq.api = "coinalyze"
    /\ rq.st = "thrown"
    /\ No429(rq.seen)
    /\ rq.sleeps = <<2000, 4000>>


(***************************************************************************)
(* Properties of the refresh cycle and of the routes (Spec).               *)
(***************************************************************************)
\* the step is a call of refreshAllData (by the startup code or by the timer)
RefreshCalled == last' # last /\ last'.kind \in {"skip", "start"}

\* a call made while a cycle is in progress changes nothing
SecondCallIsNoOp ==
    (RefreshCalled /\ cache.isRefreshing) =>
        /\ last'.kind = "skip"
        /\ UNCHANGED <<cache, cyc, active, started, writer, boot, timer>>

\* a cycle starts only in the step that calls refreshAllData, with no cycle in
\* progress: a skipped call is not run later
StartsOnlyWhenCalled ==
    started' # started =>
        /\ RefreshCalled
        /\ ~cache.isRefreshing
        /\ started' = started + 1

\* C1: at most one refreshAllData cycle is in progress at any moment, and a
\* call made while cache.isRefreshing is true is a no-op: it leaves the cache
\* and the cycle in flight alone, starts nothing, and is not queued.
C1_MutualExclusion ==
    /\ [](active <= 1 /\ (cache.isRefreshing <=> active = 1))
    /\ [][SecondCallIsNoOp /\ StartsOnlyWhenCalled]_vars

\* the timer called refreshAllData while the second cycle had requests in flight
C1_Witness ==
    /\ last.kind = "skip"
    /\ cache.isRefreshing
    /\ cyc.n = 2
    /\ cyc.pending # {}

\* C2: publication is all-or-nothing: when a cycle ends in its catch block,
\* all ten cache.data fields and cache.lastUpdate have the values they had
\* before the cycle started.
C2_AllOrNothing ==
    (last.kind = "end" /\ ~last.ok) =>
        /\ cache.data = last.body.before.data
        /\ cache.lastUpdate = last.body.before.lastUpdate

\* C3: a handler that runs at any point observes a cache.data whose ten
\* fields were all written by the same refresh cycle (or are all unset).
C3_OneCyclePerSnapshot ==
    last.kind = "response" => \A f, g \in Fields : writer[f] = writer[g]

\* the upper-cased coins the routes are asked for
Coins == { ToUpperCase(param) : param \in CoinParams }

NeverPublished == cache.lastUpdate = NULL

\* every data route and the trend route answer 503
AllLoading ==
    /\ \A route \in DataRoutes, coin \in Coins : DataStatus(route, coin) = 503
    /\ TrendStatus = 503

\* a route that answers 200 before the step answers 200 after it
StaysServed ==
    /\ \A route \in DataRoutes, coin \in Coins :
          DataStatus(route, coin) = 200 => DataStatus(route, coin)' = 200
    /\ TrendStatus = 200 => TrendStatus' = 200

\* C4: the routes answer 503 only while no snapshot has ever been published:
\* before the first publication every data route answers 503, and a route
\* that has answered 200 never answers 503 again.
C4_LoadingOnlyBeforeFirstSnapshot ==
    /\ [](NeverPublished => AllLoading)
    /\ [][StaysServed]_vars

\* C8: a request to a data route whose coin, upper-cased, is neither BTC nor
\* ETH is answered with status 400.
C8_InvalidCoinRejected ==
    (last.kind = "response" /\ last.route \in DataRoutes /\ last.coin \notin {"BTC", "ETH"})
        => last.status = 400

\* C9: handlers are pure reads: handling a request starts no refresh, issues no
\* upstream request and leaves the cache, the symbol lists and the cycle in
\* progress unchanged.
C9_HandlersOnlyRead ==
    [][(last' # last /\ last'.kind = "response") =>
          UNCHANGED <<cache, cyc, active, started, faults, boot, timer, writer>>]_vars

\* a data route answered 200 while a cycle had requests in flight
C9_Witness ==
    /\ last.kind = "response"
    /\ last.route \in DataRoutes
    /\ last.status = 200
    /\ cache.isRefreshing
    /\ cyc.pending # {}

\* the locals of the Coinalyze current and history requests all hold a body
CoinalyzeComplete(res) ==
    \A k \in Locals \ {"btcLSHist", "ethLSHist"} : res[k] # UNDEFINED

NoHyperliquidEntry(list) ==
    \A i \in DOMAIN list.items : CodeOf(list.items[i].symbol) # "HYPERLIQUID"

\* the cycle that just ended published its Coinalyze data
PublishedCoinalyze(c) ==
    /\ last.ok
    /\ cache.lastUpdate = Num(c.n)
    /\ SelectSeq(cache.data.btcOI.items, LAMBDA item : CodeOf(item.symbol) # "HYPERLIQUID")
          = c.res.coinalyzeBtcOI.items
    /\ SelectSeq(cache.data.ethOI.items, LAMBDA item : CodeOf(item.symbol) # "HYPERLIQUID")
          = c.res.coinalyzeEthOI.items
    /\ SelectSeq(cache.data.btcFR.items, LAMBDA item : CodeOf(item.symbol) # "HYPERLIQUID")
          = c.res.coinalyzeBtcFR.items
    /\ SelectSeq(cache.data.ethFR.items, LAMBDA item : CodeOf(item.symbol) # "HYPERLIQUID")
          = c.res.coinalyzeEthFR.items
    /\ cache.data.btcOIHistory = c.res.btcOIHist
    /\ cache.data.ethOIHistory = c.res.ethOIHist
    /\ cache.data.btcFRHistory = c.res.btcFRHist
    /\ cache.data.ethFRHistory = c.res.ethFRHist

\* a cycle whose Hyperliquid fetch gave nothing for an asset, and whose
\* Coinalyze requests all gave a body, ends published, without a Hyperliquid
\* entry for that asset
HyperliquidFailureTolerated ==
    (last.kind = "end" /\ CoinalyzeComplete(last.body.res)) =>
        /\ last.body.hyperliquid.btc = NULL =>
              /\ PublishedCoinalyze(last.body)
              /\ NoHyperliquidEntry(cache.data.btcOI)
              /\ NoHyperliquidEntry(cache.data.btcFR)
        /\ last.body.hyperliquid.eth = NULL =>
              /\ PublishedCoinalyze(last.body)
              /\ NoHyperliquidEntry(cache.data.ethOI)
              /\ NoHyperliquidEntry(cache.data.ethFR)

\* the completion of fetchHyperliquidData never ends the cycle
HyperliquidNeverAborts ==
    cyc.pc = "hyperliquid" => cyc'.pc \in {"hyperliquid", "sleep500"}

\* C10: a failure of the Hyperliquid source (its request throwing after the
\* retries, or BTC/ETH missing from its universe) does not abort the cycle:
\* the cycle goes on, publishes the Coinalyze data and updates
\* cache.lastUpdate, with the Hyperliquid entries absent.
C10_HyperliquidFailureIsolated ==
    /\ []HyperliquidFailureTolerated
    /\ [][HyperliquidNeverAborts]_vars

\* a cycle whose Hyperliquid request threw has published
C10_Witness ==
    /\ last.kind = "end"
    /\ last.ok
    /\ last.body.hyperliquid = HyperliquidNone
    /\ cache.lastUpdate = Num(last.body.n)
    /\ Len(cache.data.btcOI.items) > 0
    /\ NoHyperliquidEntry(cache.data.btcOI)
    /\ NoHyperliquidEntry(cache.data.ethOI)

\* the list holds an entry of the Hyperliquid source
HasHyperliquidEntry(list) ==
    IF Falsy(list) THEN FALSE
    ELSE \E i \in DOMAIN list.items : CodeOf(list.items[i].symbol) = "HYPERLIQUID"

\* C11: a failure of one source does not abort the cycle when another source
\* gave usable data: every cycle whose Hyperliquid fetch gave BTC and ETH ends
\* with a snapshot published (cache.lastUpdate set by that cycle) that holds
\* the Hyperliquid open interest, whatever became of the Coinalyze requests.
C11_PartialSnapshotPublished ==
    ( /\ last.kind = "end"
      /\ last.body.hyperliquid.btc # NULL
      /\ last.body.hyperliquid.eth # NULL )
        => /\ cache.lastUpdate = Num(last.body.n)
           /\ writer.btcOI = last.body.n
           /\ HasHyperliquidEntry(cache.data.btcOI)
           /\ HasHyperliquidEntry(cache.data.ethOI)

(***************************************************************************)
(* Properties of the symbol resolver (SpecSymbols).                        *)
(***************************************************************************)
\* initializeSymbols has run
Resolved == boot = "sleep"

\* it has run on the listing and returned true
ResolvedFromListing == Resolved /\ last.kind = "initialized" /\ last.ok

\* it has run and taken its catch block
ResolvedByFallback == Resolved /\ last.kind = "initialized" /\ ~last.ok

SymbolLists == { cache.btcSymbols, cache.ethSymbols }

\* the positions of list that hold a symbol of exchange code
WithCode(list, code) == { i \in DOMAIN list : CodeOf(list[i]) = code }

\* C12: after initializeSymbols, on every listing and on the fallback path,
\* each asset's symbol list holds at most one symbol per exchange code.
C12_AtMostOnePerExchange ==
    Resolved =>
        \A list \in SymbolLists : \A i, j \in DOMAIN list :
            CodeOf(list[i]) = CodeOf(list[j]) => i = j

\* the listing held two BTC perpetuals of Binance and one was selected
C12_Witness ==
    /\ ResolvedFromListing
    /\ Cardinality({ i \in DOMAIN rq.body.items :
                        IsBtcMarket(rq.body.items[i]) /\ CodeOf(rq.body.items[i].symbol) = "A" }) >= 2
    /\ Cardinality(WithCode(cache.btcSymbols, "A")) = 1

\* the identifier names a USDT-margined contract
UsdtMargined(symbol) == symbol.quote = "USDT"

\* a perpetual contract of the asset
PerpetualOf(asset, m) == m.base_asset = asset /\ m.is_perpetual

\* the entries of the listing that are perpetuals of the asset on the exchange
\* of the given allow-listed code, in listing order
Candidates(asset, code) ==
    SelectSeq(rq.body.items,
              LAMBDA m : PerpetualOf(asset, m) /\ CodeOf(m.symbol) = code)

Kept(list, code) == list[CHOOSE i \in WithCode(list, code) : TRUE]

PicksAsClaimed(asset, list) ==
    \A code \in wantedCodes :
        LET c == Candidates(asset, code)
        IN  Len(c) >= 2 =>
              /\ WithCode(list, code) # {}
              /\ IF \E i \in DOMAIN c : UsdtMargined(c[i].symbol)
                 THEN UsdtMargined(Kept(list, code))
                 ELSE Kept(list, code) = c[1].symbol

\* C13: for every exchange code with several candidates, pickOnePerExchange
\* keeps a USDT-margined symbol when at least one candidate is USDT-margined,
\* and otherwise the first candidate of that exchange in listing order.
C13_PrefersUsdtElseFirst ==
    ResolvedFromListing =>
        /\ PicksAsClaimed("BTC", cache.btcSymbols)
        /\ PicksAsClaimed("ETH", cache.ethSymbols)

\* Binance listed a USD-margined BTC perpetual first and a USDT-margined one
\* after it, and the USDT-margined one was kept
C13_Witness ==
    /\ ResolvedFromListing
    /\ Len(Candidates("BTC", "A")) >= 2
    /\ ~UsdtMargined(Candidates("BTC", "A")[1].symbol)
    /\ UsdtMargined(Candidates("BTC", "A")[2].symbol)
    /\ UsdtMargined(Kept(cache.btcSymbols, "A"))

\* every symbol of the list is a perpetual of the asset, of an allow-listed
\* exchange, taken from the listing
TakenFromListing(asset, list) ==
    \A i \in DOMAIN list :
        /\ CodeOf(list[i]) \in wantedCodes
        /\ \E j \in DOMAIN rq.body.items :
              rq.body.items[j].symbol = list[i] /\ PerpetualOf(asset, rq.body.items[j])

OnePerAllowListed(asset, list) ==
    /\ \A code \in wantedCodes : Cardinality(WithCode(list, code)) = 1
    /\ TakenFromListing(asset, list)

\* C14 as stated: on a listing, the resolver returns for each asset exactly
\* one instrument for every code of COINALYZE_EXCHANGES, each a perpetual of
\* the asset taken from the listing.
C14_ExactlyOnePerAllowListed ==
    ResolvedFromListing =>
        /\ OnePerAllowListed("BTC", cache.btcSymbols)
        /\ OnePerAllowListed("ETH", cache.ethSymbols)

OnePerListedExchange(asset, list) ==
    /\ \A code \in wantedCodes :
          Cardinality(WithCode(list, code)) =
              IF Candidates(asset, code) # <<>> THEN 1 ELSE 0
    /\ TakenFromListing(asset, list)

\* C14 amended: on a listing, the resolver returns for each asset exactly one
\* instrument for every allow-listed exchange on which the listing has a
\* perpetual of the asset, and none for the other exchanges; each one is a
\* perpetual of the asset taken from the listing.
C14_ExactlyOnePerListedExchange ==
    ResolvedFromListing =>
        /\ OnePerListedExchange("BTC", cache.btcSymbols)
        /\ OnePerListedExchange("ETH", cache.ethSymbols)

\* a listing with BTC perpetuals on Binance and Bybit and a BTC contract on OKX
\* that is not perpetual: two BTC symbols selected
C14_Witness ==
    /\ ResolvedFromListing
    /\ Candidates("BTC", "A") # <<>>
    /\ Candidates("BTC", "6") # <<>>
    /\ \E j \in DOMAIN rq.body.items :
          ~rq.body.items[j].is_perpetual /\ CodeOf(rq.body.items[j].symbol) = "3"
    /\ Len(cache.btcSymbols) = 2

\* C15: when the market-listing call fails, initializeSymbols returns false
\* and sets for each asset a hardcoded list with one symbol for each code of
\* COINALYZE_EXCHANGES.
C15_FallbackCoversAllowList ==
    (Resolved /\ rq.st = "thrown") =>
        /\ ResolvedByFallback
        /\ \A list \in SymbolLists : \A code \in wantedCodes :
              Cardinality(WithCode(list, code)) = 1

(***************************************************************************)
(* The symbol lists in the running server (Spec).                          *)
(***************************************************************************)
SymbolsChange ==
    cache'.btcSymbols # cache.btcSymbols \/ cache'.ethSymbols # cache.ethSymbols

\* C16: the symbol lists are computed exactly once, at startup: only the step
\* in which the startup call of initializeSymbols completes writes
\* cache.btcSymbols and cache.ethSymbols, that step happens once, and every
\* step of a refresh cycle and every handler leaves the lists unchanged.
C16_SymbolsSetOnceAtStartup ==
    /\ [][SymbolsChange => (boot = "init" /\ boot' = "sleep")]_vars
    /\ [][boot # "init" => boot' # "init"]_vars
    /\ []((boot = "init") => (cache.btcSymbols = <<>> /\ cache.ethSymbols = <<>>))

\* the second cycle has published, with the lists selected at startup from a
\* listing still in place
C16_Witness ==
    /\ last.kind = "end"
    /\ cache.lastUpdate = Num(2)
    /\ cache.btcSymbols # <<>>
    /\ cache.btcSymbols # FallbackBtcSymbols

(***************************************************************************)
(* Properties of the store block (SpecStore).                              *)
(***************************************************************************)
\* 0.005 in millionths
SanityBound == Unit \div 200

IsNumber(v) == v # NULL /\ v # UNDEFINED

InList(item, list) == \E i \in DOMAIN list.items : list.items[i] = item

\* a value is stored exactly when its magnitude is below 0.005
FilteredAt005(fetched, entry, stored) ==
    /\ \A i \in DOMAIN fetched.items :
          IsNumber(fetched.items[i].value) =>
              (InList(fetched.items[i], stored)
                  <=> Abs(fetched.items[i].value.num) < SanityBound)
    /\ entry # NULL =>
          (HasHyperliquidEntry(stored) <=> Abs(entry.fundingRate) < SanityBound)

\* C17: when the current funding rates are stored, a value is admitted exactly
\* when abs(value) < 0.005; every other value is rejected, 0.005 included.
C17_SanityFilterAt005 ==
    (last.kind = "end" /\ last.ok) =>
        /\ FilteredAt005(last.body.res.coinalyzeBtcFR, last.body.hyperliquid.btc,
                         cache.data.btcFR)
        /\ FilteredAt005(last.body.res.coinalyzeEthFR, last.body.hyperliquid.eth,
                         cache.data.ethFR)

(***************************************************************************)
(* Properties of the aggregations served by the routes (SpecRoutes).       *)
(***************************************************************************)
\* the route answered 200 for BTC
Served(route) ==
    last.kind = "response" /\ last.route = route /\ last.coin = "BTC" /\ last.status = 200

\* the sum of a sequence of integers
RECURSIVE IntSum(_)
IntSum(xs) == IF xs = <<>> THEN 0 ELSE Head(xs) + IntSum(Tail(xs))

\* the sum of a sequence of fractions
RECURSIVE RatioSum(_)
RatioSum(rs) == IF rs = <<>> THEN Zero ELSE Plus(Head(rs), RatioSum(Tail(rs)))

\* a value contributes when it is a number, and for open interest when it
\* is not 0 either
Contributes(v, zeroCounts) == IsNumber(v) /\ (zeroCounts \/ v # Num(0))

\* the contributing values, in millionths, of the items of an exchange
ValuesOf(items, exchange, zeroCounts) ==
    LET own == SelectSeq(items, LAMBDA item :
                   /\ getExchangeName(item.symbol) = exchange
                   /\ Contributes(item.value, zeroCounts))
    IN  [i \in DOMAIN own |-> own[i].value.num]

ExchangesOf(items, zeroCounts) ==
    { getExchangeName(items[i].symbol) :
        i \in { j \in DOMAIN items : Contributes(items[j].value, zeroCounts) } }

\* the breakdown has exactly one entry for each of the exchanges
OneEntryPerExchange(byExchange, exchanges) ==
    /\ \A i \in DOMAIN byExchange : byExchange[i].exchange \in exchanges
    /\ \A e \in exchanges :
          Cardinality({ i \in DOMAIN byExchange : byExchange[i].exchange = e }) = 1

\* C18: aggregateOI returns one breakdown entry per exchange, whose value is
\* the sum of that exchange's contributing instrument values (the items with
\* a value other than 0), a total equal to the sum over the exchanges, and a
\* breakdown in descending order of value.
C18_OpenInterestSummedPerExchange ==
    Served("open-interest") =>
        LET items == cache.data.btcOI.items
            byExchange == last.body.byExchange
        IN  /\ OneEntryPerExchange(byExchange, ExchangesOf(items, FALSE))
            /\ \A i \in DOMAIN byExchange :
                  byExchange[i].value =
                      Ratio(IntSum(ValuesOf(items, byExchange[i].exchange, FALSE)), 1)
            /\ last.body.total =
                  RatioSum([i \in DOMAIN byExchange |-> byExchange[i].value])
            /\ \A i, j \in DOMAIN byExchange :
                  i < j => ~Less(byExchange[i].value, byExchange[j].value)

\* BTCUSDT.6 = 50 listed before BTCUSDT_PERP.A = 100: total 150 and
\* [Binance 100, Bybit 50]
C18_Witness ==
    /\ Served("open-interest")
    /\ cache.data.btcOI.items =
          << [symbol |-> Sym("BTC", "USDT", "", "6"), value |-> Num(50 * Unit)],
             [symbol |-> Sym("BTC", "USDT", "_PERP", "A"), value |-> Num(100 * Unit)] >>
    /\ last.body.total = Ratio(150 * Unit, 1)
    /\ last.body.byExchange =
          << [exchange |-> "Binance", value |-> Ratio(100 * Unit, 1)],
             [exchange |-> "Bybit", value |-> Ratio(50 * Unit, 1)] >>

\* C19: aggregateFR returns, per exchange, the mean of that exchange's
\* contributing instrument values (the items with a value, 0 included), and
\* an overall average equal to the mean of the per-exchange means.
C19_FundingRateMeanOfMeans ==
    Served("funding-rate") =>
        LET items == cache.data.btcFR.items
            byExchange == last.body.byExchange
        IN  /\ OneEntryPerExchange(byExchange, ExchangesOf(items, TRUE))
            /\ \A i \in DOMAIN byExchange :
                  LET values == ValuesOf(items, byExchange[i].exchange, TRUE)
                  IN  byExchange[i].value = Ratio(IntSum(values), Len(values))
            /\ byExchange # <<>> =>
                  last.body.average =
                      Over(RatioSum([i \in DOMAIN byExchange |-> byExchange[i].value]),
                           Len(byExchange))

\* Binance 0.01 and 0.02, Bybit 0.05: means 0.015 and 0.05, average 0.0325
\* (the mean over the three instruments is 0.0267)
C19_Witness ==
    /\ Served("funding-rate")
    /\ cache.data.btcFR.items =
          << [symbol |-> Sym("BTC", "USDT", "_PERP", "A"), value |-> Num(10000)],
             [symbol |-> Sym("BTC", "USD", "_PERP", "A"), value |-> Num(20000)],
             [symbol |-> Sym("BTC", "USDT", "", "6"), value |-> Num(50000)] >>
    /\ last.body.byExchange =
          << [exchange |-> "Binance", value |-> Ratio(15000, 1)],
             [exchange |-> "Bybit", value |-> Ratio(50000, 1)] >>
    /\ last.body.average = Ratio(32500, 1)

\* the values, in millionths, of the points of bucket t (0 for a point
\* without a value)
BucketValues(points, t) ==
    LET own == SelectSeq(points, LAMBDA pt : pt.t = t)
    IN  [i \in DOMAIN own |-> IF IsNumber(own[i].c) THEN own[i].c.num ELSE 0]

\* C20: aggregateHistory outputs exactly one point per distinct bucket
\* timestamp across all instruments, whose value is the sum of the points of
\* that bucket, in strictly increasing timestamp order.
C20_HistorySummedPerBucket ==
    Served("open-interest-history") =>
        LET points == HistoryPoints(cache.data.btcOIHistory.items)
            buckets == { points[i].t : i \in DOMAIN points }
            history == last.body.history
        IN  /\ Len(history) = Cardinality(buckets)
            /\ \A t \in buckets :
                  \E i \in DOMAIN history :
                      /\ history[i].t = t * 1000
                      /\ history[i].value = Ratio(IntSum(BucketValues(points, t)), 1)
            /\ \A i, j \in DOMAIN history : i < j => history[i].t < history[j].t

\* bucket 2 with value 3 met first, then bucket 1 with values 1 and 2 from two
\* instruments: two points, bucket 1 -> 3 before bucket 2 -> 3
C20_Witness ==
    /\ Served("open-interest-history")
    /\ Len(cache.data.btcOIHistory.items) = 2
    /\ cache.data.btcOIHistory.items[1].history = <<[t |-> 2, c |-> Num(3 * Unit)],
                                                    [t |-> 1, c |-> Num(Unit)]>>
    /\ cache.data.btcOIHistory.items[2].history = <<[t |-> 1, c |-> Num(2 * Unit)]>>
    /\ last.body.history = << [t |-> 1000, value |-> Ratio(3 * Unit, 1)],
                              [t |-> 2000, value |-> Ratio(3 * Unit, 1)] >>

(***************************************************************************)
(* Properties of the trend analysis (SpecTrend).                           *)
(***************************************************************************)
\* the trend route answered 200
TrendServed == last.kind = "response" /\ last.route = "trend" /\ last.status = 200

\* C21: analyzeTrend classifies bullish when the bullish count exceeds the
\* bearish count, bearish when the reverse holds and neutral otherwise; the
\* confidence is high when either count reaches 3, else moderate when the
\* winning count is 2 or more, else low, for every combination of the counts.
C21_ClassificationFromCounts ==
    TrendServed =>
        LET bullish == last.body.signals.bullish
            bearish == last.body.signals.bearish
            winning == IF bullish > bearish THEN bullish
                       ELSE IF bearish > bullish THEN bearish
                       ELSE 0
        IN  /\ last.body.trend = "bullish" <=> bullish > bearish
            /\ last.body.trend = "bearish" <=> bearish > bullish
            /\ last.body.trend = "neutral" <=> bullish = bearish
            /\ last.body.confidence = "high" <=> (bullish >= 3 \/ bearish >= 3)
            /\ last.body.confidence = "moderate" <=>
                  (bullish < 3 /\ bearish < 3 /\ winning >= 2)
            /\ last.body.confidence = "low" <=>
                  (bullish < 3 /\ bearish < 3 /\ winning < 2)

\* three bearish signals: bearish with high confidence
C21_Witness ==
    /\ TrendServed
    /\ last.body.signals = [bullish |-> 0, bearish |-> 3]
    /\ last.body.trend = "bearish"
    /\ last.body.confidence = "high"

C24_CycleEndsAndResetsFlag ==
    /\ (cyc.pc # "idle") ~> (cyc.pc = "idle" /\ ~cache.isRefreshing)
    /\ [](cyc.pc = "idle" => ~cache.isRefreshing)

\* a cycle that was aborted by a throw has ended with the flag reset
C24_Witness ==
    /\ last.kind = "end"
    /\ ~last.ok
    /\ started >= 1
    /\ cyc.pc = "idle"
    /\ ~cache.isRefreshing

(***************************************************************************)
(* Properties of the histories served by the routes (SpecRoutes).          *)
(***************************************************************************)
\* the mean of a sequence of integers that is not empty
MeanOf(xs) == Ratio(IntSum(xs), Len(xs))

\* the values, in millionths, of the points of bucket t that satisfy keep
\* (a set of values)
KeptValues(points, t, keep) ==
    LET own == SelectSeq(points, LAMBDA pt : pt.t = t /\ pt.c \in keep)
    IN  [i \in DOMAIN own |-> own[i].c.num]

\* the values of the points drawn that pass the filter of the current
\* funding rates
AdmittedValues ==
    { c \in { pt.c : pt \in FRSeriesPoints } : FRAdmitted([value |-> c]) }

\* C25: the sanity filter of the current funding rates is applied to the
\* funding-rate history as well: a bucket average is the mean of the points
\* of the bucket that pass the filter, and an out-of-range value never
\* contributes.
C25_HistoryFilteredAsCurrent ==
    Served("funding-rate-history") =>
        LET points == HistoryPoints(cache.data.btcFRHistory.items)
            history == last.body.history
        IN  \A i \in DOMAIN history :
                LET admitted == KeptValues(points, history[i].t \div 1000, AdmittedValues)
                IN  admitted # <<>> => history[i].value = MeanOf(admitted)

\* the numbers among the values
Numbers(values) == { v \in values : IsNumber(v) }

\* the values, in millionths, that are numbers among those of the items of
\* an exchange
NumbersOf(items, exchange) ==
    LET own == SelectSeq(items, LAMBDA item :
                   getExchangeName(item.symbol) = exchange /\ IsNumber(item.value))
    IN  [i \in DOMAIN own |-> own[i].value.num]

\* the values, in millionths, that are numbers among those of the points of
\* bucket t
NumbersAt(points, t) ==
    LET own == SelectSeq(points, LAMBDA pt : pt.t = t /\ IsNumber(pt.c))
    IN  [i \in DOMAIN own |-> own[i].c.num]

\* C26: a value of null or undefined is never counted as zero by aggregateOI,
\* aggregateFR, aggregateHistory and averageHistory: every output entry has
\* an input that is a number, and its value is the sum (or the mean) of the
\* inputs that are numbers; an output whose inputs are all null is not
\* reported with the value 0.
C26_NullNeverCountedAsZero ==
    /\ Served("open-interest") =>
          \A i \in DOMAIN last.body.byExchange :
              LET numbers == NumbersOf(cache.data.btcOI.items,
                                       last.body.byExchange[i].exchange)
              IN  /\ numbers # <<>>
                  /\ last.body.byExchange[i].value = Ratio(IntSum(numbers), 1)
    /\ Served("funding-rate") =>
          \A i \in DOMAIN last.body.byExchange :
              LET numbers == NumbersOf(cache.data.btcFR.items,
                                       last.body.byExchange[i].exchange)
              IN  /\ numbers # <<>>
                  /\ last.body.byExchange[i].value = MeanOf(numbers)
    /\ Served("open-interest-history") =>
          \A i \in DOMAIN last.body.history :
              LET numbers == NumbersAt(HistoryPoints(cache.data.btcOIHistory.items),
                                       last.body.history[i].t \div 1000)
              IN  /\ numbers # <<>>
                  /\ last.body.history[i].value = Ratio(IntSum(numbers), 1)
    /\ Served("funding-rate-history") =>
          \A i \in DOMAIN last.body.history :
              LET numbers == NumbersAt(HistoryPoints(cache.data.btcFRHistory.items),
                                       last.body.history[i].t \div 1000)
              IN  /\ numbers # <<>>
                  /\ last.body.history[i].value = MeanOf(numbers)

\* C27: averageHistory omits a bucket without a point that is not null, and
\* the value of every bucket it emits is the mean of the points of the bucket
\* that are not null.
C27_EmptyBucketsOmitted ==
    Served("funding-rate-history") =>
        LET points == HistoryPoints(cache.data.btcFRHistory.items)
            history == last.body.history
            contributing == { t \in { points[i].t : i \in DOMAIN points } :
                                NumbersAt(points, t) # <<>> }
        IN  /\ { history[i].t : i \in DOMAIN history } = { t * 1000 : t \in contributing }
            /\ \A i \in DOMAIN history :
                  history[i].value = MeanOf(NumbersAt(points, history[i].t \div 1000))

\* the mean of a sequence of fractions that is not empty
RatioMean(rs) == Over(RatioSum(rs), Len(rs))

\* the long/short points of bucket t (in milliseconds) among those served
\* one by one
ServedAt(points, t) == SelectSeq(points, LAMBDA pt : pt.t = t)

\* C28: the long/short history served is strictly increasing in timestamp,
\* with one point per distinct bucket across all the instruments, each point
\* carrying the averages of the ratio, of the long percentage and of the
\* short percentage of its bucket, for any number of series in the input.
C28_LongShortAveragedPerBucket ==
    Served("long-short-history") =>
        LET points == AllPoints(HistoryPoints(cache.data.btcLSHistory.items))
            buckets == { points[i].t : i \in DOMAIN points }
            history == last.body.history
        IN  /\ Len(history) = Cardinality(buckets)
            /\ \A i, j \in DOMAIN history : i < j => history[i].t < history[j].t
            /\ \A i \in DOMAIN history :
                  LET own == ServedAt(points, history[i].t)
                  IN  /\ own # <<>>
                      /\ history[i].ratio = RatioMean([k \in DOMAIN own |-> own[k].ratio])
                      /\ history[i].long = RatioMean([k \in DOMAIN own |-> own[k].long])
                      /\ history[i].short = RatioMean([k \in DOMAIN own |-> own[k].short])

(***************************************************************************)
(* Properties of the signals of the trend analysis (SpecTrend).            *)
(***************************************************************************)
\* the trend of BTC was served from a cache holding nothing but funding rates
OnlyFundingServed ==
    /\ TrendServed
    /\ last.coin = "BTC"
    /\ cache.data.btcOIHistory.items = <<>>
    /\ cache.data.btcLSHistory.items = <<>>

\* C29: an average funding rate above +0.0001 contributes exactly one bullish
\* signal, an average below -0.0001 exactly one bearish signal, and an
\* average in between no signal.
C29_FundingSignalAt00001 ==
    OnlyFundingServed =>
        LET avgFR == aggregateFR(cache.data.btcFR).average
            bound == Unit \div 10000
        IN  /\ last.body.signals.bullish = IF Less(Ratio(bound, 1), avgFR) THEN 1 ELSE 0
            /\ last.body.signals.bearish = IF Less(avgFR, Ratio(-bound, 1)) THEN 1 ELSE 0

\* the trend of BTC was served from a cache holding nothing but one series of
\* open interest
OnlyOpenInterestServed ==
    /\ TrendServed
    /\ last.coin = "BTC"
    /\ cache.data.btcFR.items = <<>>
    /\ cache.data.btcLSHistory.items = <<>>
    /\ Len(cache.data.btcOIHistory.items) = 1

\* the sum of the values, in millionths, of the points from..to of a series
ValueSum(history, from, to) ==
    IntSum([i \in 1..(to - from + 1) |-> history[from + i - 1].c.num])

OnlyLongShortServed ==
    /\ TrendServed
    /\ last.coin = "BTC"
    /\ cache.data.btcFR.items = <<>>
    /\ cache.data.btcOIHistory.items = <<>>
    /\ Len(cache.data.btcLSHistory.items) = 1

\* the ratios, in millionths, of the most recent bucket of a series: those of
\* the points of the largest timestamp among the points that have a ratio
LatestRatios(history) ==
    LET rated == SelectSeq(history, LAMBDA pt : IsNumber(pt.r))
        latest == SelectSeq(rated, LAMBDA pt : \A i \in DOMAIN rated : rated[i].t <= pt.t)
    IN  [i \in DOMAIN latest |-> latest[i].r.num]

\* C31: signal 3 uses the ratio of the most recent (largest-timestamp) bucket
\* of the long/short history, the ratio of a bucket being the average of its
\* points: one bullish signal when it is above 1.1, one bearish signal when it
\* is below 0.9, none when it lies in [0.9, 1.1] or when the history is empty.
C31_LongShortSignal ==
    OnlyLongShortServed =>
        LET ratios == LatestRatios(cache.data.btcLSHistory.items[1].history)
        IN  IF ratios = <<>>
            THEN last.body.signals = [bullish |-> 0, bearish |-> 0]
            ELSE /\ last.body.signals.bullish =
                       IF IntSum(ratios) * 10 > 11 * Unit * Len(ratios) THEN 1 ELSE 0
                 /\ last.body.signals.bearish =
                       IF IntSum(ratios) * 10 < 9 * Unit * Len(ratios) THEN 1 ELSE 0

\* C32: in every result of analyzeTrend the number of reasons is the sum of
\* the bullish and bearish counts (a triggered signal appends exactly one
\* reason, an untriggered one none), and that sum is at most 3.
C32_OneReasonPerSignal ==
    TrendServed =>
        /\ Len(last.body.reasons) = last.body.signals.bullish + last.body.signals.bearish
        /\ last.body.signals.bullish + last.body.signals.bearish <= 3
        /\ last.body.signals.bullish >= 0
        /\ last.body.signals.bearish >= 0

\* one bullish signal (funding) and two bearish ones (open interest, then
\* long/short): three reasons in the order of the signals
C32_Witness ==
    /\ TrendServed
    /\ last.body.signals = [bullish |-> 1, bearish |-> 2]
    /\ Len(last.body.reasons) = 3
    /\ last.body.reasons[1].text = "Positive funding rate indicates bullish sentiment"
    /\ last.body.reasons[2].text = "Open Interest down % over 5 days"
    /\ last.body.reasons[3].text = "Long/Short ratio - more shorts than longs"

\* C33: in every result of analyzeTrend a neutral trend has confidence low,
\* and confidence high occurs only when the three signals agree (one count is
\* 3, the other 0): high confidence never accompanies a neutral trend.
C33_NeutralIsLowHighIsUnanimous ==
    TrendServed =>
        /\ last.body.trend = "neutral" => last.body.confidence = "low"
        /\ last.body.confidence = "high" =>
              \/ last.body.signals = [bullish |-> 3, bearish |-> 0]
              \/ last.body.signals = [bullish |-> 0, bearish |-> 3]

\* one signal each way: neutral, with low confidence
C33_Witness ==
    /\ TrendServed
    /\ last.body.signals = [bullish |-> 1, bearish |-> 1]
    /\ last.body.trend = "neutral"
    /\ last.body.confidence = "low"

(***************************************************************************)
(* Properties of the published cache and of the startup (Spec).            *)
(***************************************************************************)
\* all ten cache.data fields hold a value (neither null nor undefined)
AllFieldsSet == \A f \in Fields : NotNull(cache.data[f])

\* C34: whenever cache.lastUpdate is not null the ten cache.data fields are
\* not null; a field that has become non-null never becomes null again; and
\* cache.lastUpdate changes only at the end of a cycle that assigned all ten
\* fields.
C34_PublishedFieldsStaySet ==
    [][ /\ cache'.lastUpdate # NULL => AllFieldsSet'
        /\ \A f \in Fields : NotNull(cache.data[f]) => NotNull(cache'.data[f])
        /\ cache'.lastUpdate # cache.lastUpdate =>
              /\ last'.kind = "end"
              /\ \A f \in Fields : writer'[f] = cyc.n ]_vars

(***************************************************************************)
(* Termination of the retry loop (SpecRequest).                            *)
(***************************************************************************)
\* C35: for every sequence of upstream responses, 429 responses included, a
\* call of coinalyzeRequest performs at most 3 fetches and then completes
\* (returns or throws): every fetch that does not complete the call advances
\* the loop counter, and the call is complete after the third fetch.
C35_AtMostThreeFetches ==
    rq.api = "coinalyze" =>
        /\ Len(rq.seen) <= Retries
        /\ rq.st \in {"pending", "returned", "thrown"}
        /\ rq.st = "pending" => rq.attempt = Len(rq.seen) + 1
        /\ Len(rq.seen) = Retries => rq.st # "pending"

\* three 429 responses: the call has completed after its third fetch
C35_Witness ==
    /\ rq.api = "coinalyze"
    /\ Len(rq.seen) = 3
    /\ \A i \in 1..3 : Is429(rq.seen[i])
    /\ rq.st = "returned"
    /\ Len(rq.sleeps) = 3

\* the symbol lists are those initializeSymbols leaves on some listing
SymbolsInitialized ==
    \E listing \in Listings, kind \in CoinalyzeKinds :
        LET symbols == initializeSymbols(Completed("coinalyze", Array(listing), kind))
        IN  /\ cache.btcSymbols = symbols.btcSymbols
            /\ cache.ethSymbols = symbols.ethSymbols

\* C36: no refresh cycle starts before initializeSymbols has completed; the
\* first cycle starts after it, with the symbol lists it set (from the listing
\* or from the fallback); the interval timer is installed only once that first
\* cycle has ended, and no second cycle starts before the timer is installed.
C36_StartupOrder ==
    /\ [](/\ boot = "init" => started = 0 /\ ~timer
          /\ boot = "sleep" => started = 0 /\ ~timer
          /\ boot = "refreshing" => started = 1 /\ ~timer
          /\ timer => boot = "running" /\ started >= 1)
    /\ [][/\ started' > started =>
                /\ boot # "init"
                /\ SymbolsInitialized
                /\ started = 0 => boot = "sleep" /\ boot' = "refreshing"
                /\ started > 0 => timer
          /\ timer' /\ ~timer =>
                /\ last'.kind = "end"
                /\ cyc.n = 1
                /\ active' = 0]_vars

\* the timer is installed, the first cycle has ended and no other has started
C36_Witness ==
    /\ timer
    /\ boot = "running"
    /\ started = 1
    /\ active = 0
    /\ last.kind = "end"
    /\ SymbolsInitialized

\* the cycle that just ended had a long/short history request throw
LongShortThrew ==
    /\ last.kind = "end"
    /\ last.body.pc \in {"btcLongShort", "ethLongShort"}
    /\ last.body.pending # {}

\* C37: a long/short history request that throws does not abort the cycle.
\* When the other Coinalyze requests of the cycle all gave a body, the cycle
\* ends published: the other eight fields and cache.lastUpdate are those of
\* this cycle's fetches, and each long/short field holds what the cycle
\* fetched before the failure: the empty list for the asset whose request
\* threw and for the asset not reached.
C37_LongShortFailureIsolated ==
    (LongShortThrew /\ CoinalyzeComplete(last.body.res)) =>
        /\ PublishedCoinalyze(last.body)
        /\ ~cache.isRefreshing
        /\ \A f \in Fields : writer[f] = last.body.n
        /\ HasHyperliquidEntry(cache.data.btcOI) <=> last.body.hyperliquid.btc # NULL
        /\ HasHyperliquidEntry(cache.data.ethOI) <=> last.body.hyperliquid.eth # NULL
        /\ cache.data.btcLSHistory = last.body.res.btcLSHist
        /\ cache.data.ethLSHistory = Array(<<>>)
        /\ last.body.pc = "btcLongShort" => cache.data.btcLSHistory = Array(<<>>)

\* the ETH request threw after the BTC request had returned its history
C37_Witness ==
    /\ LongShortThrew
    /\ last.ok
    /\ last.body.pc = "ethLongShort"
    /\ cache.lastUpdate = Num(last.body.n)
    /\ cache.data.btcLSHistory # Array(<<>>)
    /\ cache.data.btcLSHistory # UNDEFINED
    /\ cache.data.ethLSHistory = Array(<<>>)
    /\ Len(cache.data.btcOI.items) > 0

\* the current-data lists, which take a Hyperliquid entry
SnapshotFields == {"btcOI", "ethOI", "btcFR", "ethFR"}

\* the number of entries of the Hyperliquid source in a list
HyperliquidEntries(list) ==
    Len(SelectSeq(list.items, LAMBDA item : CodeOf(item.symbol) = "HYPERLIQUID"))

\* the list is this cycle's Coinalyze items and at most one more entry, of the
\* Hyperliquid source, only if this cycle's Hyperliquid fetch gave the asset
OneEntryOfThisCycle(list, coinalyze, entry) ==
    /\ HyperliquidEntries(list) > 0 => entry # NULL
    /\ Len(list.items) <= Len(coinalyze.items) + 1
    /\ Len(list.items) > Len(coinalyze.items) =>
          CodeOf(list.items[Len(list.items)].symbol) = "HYPERLIQUID"

\* C38: each of cache.data.btcOI, ethOI, btcFR and ethFR holds at most one
\* Hyperliquid entry, whatever the number of cycles; after a cycle that
\* completed, the entry is there only if the Hyperliquid fetch of that cycle
\* returned data for the asset, and the list has at most one entry more than
\* the Coinalyze items of that cycle.
C38_NoHyperliquidAccumulation ==
    /\ \A f \in SnapshotFields :
          cache.data[f] # NULL => HyperliquidEntries(cache.data[f]) <= 1
    /\ (last.kind = "end" /\ last.ok) =>
          LET c == last.body
          IN  /\ OneEntryOfThisCycle(cache.data.btcOI, c.res.coinalyzeBtcOI, c.hyperliquid.btc)
              /\ OneEntryOfThisCycle(cache.data.ethOI, c.res.coinalyzeEthOI, c.hyperliquid.eth)
              /\ OneEntryOfThisCycle(cache.data.btcFR, c.res.coinalyzeBtcFR, c.hyperliquid.btc)
              /\ OneEntryOfThisCycle(cache.data.ethFR, c.res.coinalyzeEthFR, c.hyperliquid.eth)

\* a second cycle completed on a cache that already held a Hyperliquid entry
C38_Witness ==
    /\ last.kind = "end"
    /\ last.ok
    /\ last.body.n = 2
    /\ last.body.before.data.btcOI # NULL
    /\ HyperliquidEntries(last.body.before.data.btcOI) = 1
    /\ last.body.hyperliquid.btc # NULL
    /\ HyperliquidEntries(cache.data.btcOI) = 1
    /\ HyperliquidEntries(cache.data.btcFR) = 1
    /\ Len(cache.data.btcOI.items) = Len(last.body.res.coinalyzeBtcOI.items) + 1

=============================================================================
